---- MODULE Spec2Model ----
(***************************************************************************)
(* Nine Lives Cat Sudoku: the grid model (BoardState), the undo/redo log   *)
(* (GameHistory), the session and hint bookkeeping of nine_lives_core and  *)
(* the controller systems of nine_lives_controller that drive them.        *)
(*                                                                         *)
(* Option<T> is modelled as a sequence of length at most one: None is <<>> *)
(* and Some(v) is <<v>>.  std::time::Instant is a logical clock.           *)
(***************************************************************************)
EXTENDS Integers, Sequences, FiniteSets, TLC

(***************************************************************************)
(* Program constants.                                                      *)
(***************************************************************************)
GRID_SIZE == 9

BOX_SIZE == 3

NUM_EMOJIS == 9

DEFAULT_MAX_HISTORY == 100

DEFAULT_MAX_HINTS == 3

UNIQUENESS_CAP == 2

(***************************************************************************)
(* Bounds of the exploration.                                              *)
(***************************************************************************)
\* handlers (or direct calls) run after the start, or after the warm-up
MaxSteps == 4

\* cells generate_puzzle removes from the complete grid: givens >= 81 - MaxRemoved
MaxRemoved == 2

\* candidates.choose() draws among the first MaxHintPick candidates
MaxHintPick == 2

\* symbol counts 1 .. MaxSymbols are cycled with, besides NUM_EMOJIS
MaxSymbols == 3

\* solve_with_counter is called with max_solutions in 1 .. MaxCap
MaxCap == 3

\* generate_puzzle_with_settings is called with givens_range.0 >= 81 - MaxCleared
MaxCleared == 4

(***************************************************************************)
(* Option<T>, and the indices of a row or column.                          *)
(***************************************************************************)
None == <<>>

Some(v) == <<v>>

is_some(o) == o # None

is_none(o) == o = None

Idx == 0 .. (GRID_SIZE - 1)

\* The 81 positions in row-major order, as the nested for loops visit them.
row_major == [i \in 1 .. (GRID_SIZE * GRID_SIZE) |->
                <<(i - 1) \div GRID_SIZE, (i - 1) % GRID_SIZE>>]

(***************************************************************************)
(* BoardState                                                              *)
(***************************************************************************)
BoardState_new ==
    [cells      |-> [r \in Idx |-> [c \in Idx |-> None]],
     cell_types |-> [r \in Idx |-> [c \in Idx |-> None]]]

clear(board) == BoardState_new

is_given_cell(board, row, col) == board.cell_types[row][col] = Some("Given")

\* cycle_cell without the test that refuses Given cells.
cycle_cell_ignores_given(board, row, col, num_emojis, now) ==
    LET old_value == board.cells[row][col]
        new_value == IF old_value = None
                     THEN Some(0)
                     ELSE Some((old_value[1] + 1) % num_emojis)
    IN  IF old_value = new_value
        THEN [board |-> board, ret |-> None]
        ELSE [board |->
                [cells      |-> [board.cells EXCEPT ![row][col] = new_value],
                 cell_types |-> [board.cell_types EXCEPT ![row][col] = Some("Player")]],
              ret |-> Some([row |-> row, col |-> col,
                            old_value |-> old_value, new_value |-> new_value,
                            timestamp |-> now])]

\* cycle_cell that leaves the origin tag of the cell as it was.
cycle_cell_keeps_origin(board, row, col, num_emojis, now) ==
    IF board.cell_types[row][col] = Some("Given")
    THEN [board |-> board, ret |-> None]
    ELSE LET old_value == board.cells[row][col]
             new_value == IF old_value = None
                          THEN Some(0)
                          ELSE Some((old_value[1] + 1) % num_emojis)
         IN  IF old_value = new_value
             THEN [board |-> board, ret |-> None]
             ELSE [board |-> [board EXCEPT !.cells[row][col] = new_value],
                   ret |-> Some([row |-> row, col |-> col,
                                 old_value |-> old_value, new_value |-> new_value,
                                 timestamp |-> now])]

\* cycle_cell that goes back to the empty cell after the last symbol.
cycle_cell_wraps_to_empty(board, row, col, num_emojis, now) ==
    IF board.cell_types[row][col] = Some("Given")
    THEN [board |-> board, ret |-> None]
    ELSE LET old_value == board.cells[row][col]
             new_value == IF old_value = None
                          THEN Some(0)
                          ELSE IF old_value[1] + 1 >= num_emojis
                               THEN None
                               ELSE Some(old_value[1] + 1)
         IN  [board |->
                [cells      |-> [board.cells EXCEPT ![row][col] = new_value],
                 cell_types |-> [board.cell_types EXCEPT ![row][col] =
                                   IF is_some(new_value) THEN Some("Player") ELSE None]],
              ret |-> Some([row |-> row, col |-> col,
                            old_value |-> old_value, new_value |-> new_value,
                            timestamp |-> now])]

\* The result is the board after the call and the returned Option<Move>;
\* now is the value of Instant::now().
cycle_cell(board, row, col, num_emojis, now) ==
    IF board.cell_types[row][col] = Some("Given")
    THEN [board |-> board, ret |-> None]
    ELSE LET old_value == board.cells[row][col]
             new_value == IF old_value = None
                          THEN Some(0)
                          ELSE Some((old_value[1] + 1) % num_emojis)
         IN  IF old_value = new_value
             THEN [board |-> board, ret |-> None]
             ELSE [board |->
                     [cells      |-> [board.cells EXCEPT ![row][col] = new_value],
                      cell_types |-> [board.cell_types EXCEPT ![row][col] =
                                        IF is_some(new_value) THEN Some("Player") ELSE None]],
                   ret |-> Some([row |-> row, col |-> col,
                                 old_value |-> old_value, new_value |-> new_value,
                                 timestamp |-> now])]

\* apply_move without the safety check on Given cells.
apply_move_unchecked(board, game_move) ==
    [cells      |-> [board.cells EXCEPT ![game_move.row][game_move.col] = game_move.new_value],
     cell_types |-> [board.cell_types EXCEPT ![game_move.row][game_move.col] =
                       IF is_some(game_move.new_value) THEN Some("Player") ELSE None]]

apply_move(board, game_move) ==
    IF board.cell_types[game_move.row][game_move.col] = Some("Given")
    THEN board
    ELSE [cells      |-> [board.cells EXCEPT ![game_move.row][game_move.col] = game_move.new_value],
          cell_types |-> [board.cell_types EXCEPT ![game_move.row][game_move.col] =
                            IF is_some(game_move.new_value) THEN Some("Player") ELSE None]]

\* undo_move that writes the value the move set.
undo_move_keeps_new_value(board, game_move) ==
    IF board.cell_types[game_move.row][game_move.col] = Some("Given")
    THEN board
    ELSE [cells      |-> [board.cells EXCEPT ![game_move.row][game_move.col] = game_move.new_value],
          cell_types |-> [board.cell_types EXCEPT ![game_move.row][game_move.col] =
                            IF is_some(game_move.new_value) THEN Some("Player") ELSE None]]

undo_move(board, game_move) ==
    IF board.cell_types[game_move.row][game_move.col] = Some("Given")
    THEN board
    ELSE [cells      |-> [board.cells EXCEPT ![game_move.row][game_move.col] = game_move.old_value],
          cell_types |-> [board.cell_types EXCEPT ![game_move.row][game_move.col] =
                            IF is_some(game_move.old_value) THEN Some("Player") ELSE None]]

\* is_valid_placement whose row loop compares the cell (row, col) too.
is_valid_placement_counts_self(board, row, col, value) ==
    /\ \A c \in Idx : ~(board.cells[row][c] = Some(value))
    /\ \A r \in Idx : ~(r # row /\ board.cells[r][col] = Some(value))
    /\ LET box_row_start == (row \div BOX_SIZE) * BOX_SIZE
           box_col_start == (col \div BOX_SIZE) * BOX_SIZE
       IN  \A r \in box_row_start .. (box_row_start + BOX_SIZE - 1) :
             \A c \in box_col_start .. (box_col_start + BOX_SIZE - 1) :
               ~((r # row \/ c # col) /\ board.cells[r][c] = Some(value))

is_valid_placement(board, row, col, value) ==
    /\ \A c \in Idx : ~(c # col /\ board.cells[row][c] = Some(value))
    /\ \A r \in Idx : ~(r # row /\ board.cells[r][col] = Some(value))
    /\ LET box_row_start == (row \div BOX_SIZE) * BOX_SIZE
           box_col_start == (col \div BOX_SIZE) * BOX_SIZE
       IN  \A r \in box_row_start .. (box_row_start + BOX_SIZE - 1) :
             \A c \in box_col_start .. (box_col_start + BOX_SIZE - 1) :
               ~((r # row \/ c # col) /\ board.cells[r][c] = Some(value))

\* get_conflicts that compares a cell with its row and its column only.
get_conflicts_skips_boxes(board) ==
    SelectSeq(row_major,
              LAMBDA p : /\ is_some(board.cells[p[1]][p[2]])
                         /\ \/ \E c \in Idx : c # p[2] /\ board.cells[p[1]][c] = board.cells[p[1]][p[2]]
                            \/ \E r \in Idx : r # p[1] /\ board.cells[r][p[2]] = board.cells[p[1]][p[2]])

\* The conflicts vector, in the order the loops push the positions.
get_conflicts(board) ==
    SelectSeq(row_major,
              LAMBDA p : /\ is_some(board.cells[p[1]][p[2]])
                         /\ ~is_valid_placement(board, p[1], p[2], board.cells[p[1]][p[2]][1]))

\* is_complete without the test of the conflicts.
is_complete_ignores_conflicts(board) ==
    ~(\E r \in Idx, c \in Idx : is_none(board.cells[r][c]))

is_complete(board) ==
    IF \E r \in Idx, c \in Idx : is_none(board.cells[r][c])
    THEN FALSE
    ELSE get_conflicts(board) = <<>>

compute_game_state(board) == IF is_complete(board) THEN "Won" ELSE "Playing"

(***************************************************************************)
(* GameHistory: moves is the VecDeque, front first; VecDeque::get(i) is    *)
(* the element at 0-based index i.                                         *)
(***************************************************************************)
GameHistory_new ==
    [moves |-> <<>>, undo_index |-> 0, max_history |-> DEFAULT_MAX_HISTORY]

get(moves, i) == IF i >= 0 /\ i < Len(moves) THEN Some(moves[i + 1]) ELSE None

pop_back(moves) == IF Len(moves) = 0 THEN moves ELSE SubSeq(moves, 1, Len(moves) - 1)

pop_front(moves) == IF Len(moves) = 0 THEN moves ELSE Tail(moves)

\* while self.moves.len() > self.undo_index { self.moves.pop_back(); }
RECURSIVE truncate_future(_)
truncate_future(h) ==
    IF Len(h.moves) > h.undo_index
    THEN truncate_future([h EXCEPT !.moves = pop_back(h.moves)])
    ELSE h

\* while self.moves.len() > self.max_history { pop_front; if undo_index > 0 { undo_index -= 1 } }
RECURSIVE keep_within_bounds(_)
keep_within_bounds(h) ==
    IF Len(h.moves) > h.max_history
    THEN keep_within_bounds([h EXCEPT !.moves = pop_front(h.moves),
                                      !.undo_index = IF h.undo_index > 0
                                                     THEN h.undo_index - 1
                                                     ELSE h.undo_index])
    ELSE h

\* add_move without the loop that truncates the future moves.
add_move_keeps_future(h, game_move) ==
    LET pushed   == [h EXCEPT !.moves = Append(h.moves, game_move)]
        advanced == [pushed EXCEPT !.undo_index = Len(pushed.moves)]
    IN  keep_within_bounds(advanced)

\* add_move without the loop that keeps the history within bounds.
add_move_unbounded(h, game_move) ==
    LET truncated == truncate_future(h)
        pushed    == [truncated EXCEPT !.moves = Append(truncated.moves, game_move)]
    IN  [pushed EXCEPT !.undo_index = Len(pushed.moves)]

\* add_move evicting the newest entry (pop_back) instead of the oldest.
add_move_evicts_newest(h, game_move) ==
    LET truncated == truncate_future(h)
        pushed    == [truncated EXCEPT !.moves = Append(truncated.moves, game_move)]
        advanced  == [pushed EXCEPT !.undo_index = Len(pushed.moves)]
    IN  IF Len(advanced.moves) > advanced.max_history
        THEN [advanced EXCEPT !.moves = SubSeq(advanced.moves, 1, advanced.max_history),
                              !.undo_index = advanced.max_history]
        ELSE advanced

add_move(h, game_move) ==
    LET truncated == truncate_future(h)
        pushed    == [truncated EXCEPT !.moves = Append(truncated.moves, game_move)]
        advanced  == [pushed EXCEPT !.undo_index = Len(pushed.moves)]
    IN  keep_within_bounds(advanced)

can_undo(h) == h.undo_index > 0

can_redo(h) == h.undo_index < Len(h.moves)

\* peek_undo reading the entry at the cursor instead of the one before it.
peek_undo_at_cursor(h) == IF can_undo(h) THEN get(h.moves, h.undo_index) ELSE None

peek_undo(h) == IF can_undo(h) THEN get(h.moves, h.undo_index - 1) ELSE None

peek_redo(h) == IF can_redo(h) THEN get(h.moves, h.undo_index) ELSE None

mark_undone(h) == IF can_undo(h) THEN [h EXCEPT !.undo_index = h.undo_index - 1] ELSE h

mark_redone(h) == IF can_redo(h) THEN [h EXCEPT !.undo_index = h.undo_index + 1] ELSE h

\* clear that leaves the cursor where it was.
history_clear_keeps_cursor(h) == [h EXCEPT !.moves = <<>>]

history_clear(h) == [h EXCEPT !.moves = <<>>, !.undo_index = 0]

position_info(h) == <<h.undo_index, Len(h.moves)>>

(***************************************************************************)
(* GameSession, DebugMode, HintSystem.  An Instant is a reading of the     *)
(* logical clock, a Duration a difference of two readings.                 *)
(***************************************************************************)
\* GameSession::new() when Instant::now() reads now.
GameSession_new(now) ==
    [started_at |-> now, elapsed_time |-> 0, move_count |-> 0, is_paused |-> FALSE,
     pause_start |-> None]

\* pause that takes a new pause_start on a session that is paused already.
pause_restarts(session, now) ==
    [session EXCEPT !.is_paused = TRUE, !.pause_start = Some(now)]

pause(session, now) ==
    IF ~session.is_paused
    THEN [session EXCEPT !.is_paused = TRUE, !.pause_start = Some(now)]
    ELSE session

\* pause_start.take(): pause_start is None afterwards in either case.
resume(session) ==
    IF is_some(session.pause_start)
    THEN [session EXCEPT !.is_paused = FALSE, !.pause_start = None]
    ELSE session

\* increment_move that counts every move twice.
increment_move_counts_twice(session) == [session EXCEPT !.move_count = session.move_count + 2]

increment_move(session) == [session EXCEPT !.move_count = session.move_count + 1]

session_reset(session, now) == GameSession_new(now)

\* started_at.elapsed() is now - started_at.
current_elapsed(session, now) ==
    IF session.is_paused
    THEN session.elapsed_time
    ELSE session.elapsed_time + (now - session.started_at)

DebugMode_default == [enabled |-> FALSE, unlimited_hints |-> FALSE]

enable_unlimited_hints(dm) == [enabled |-> TRUE, unlimited_hints |-> TRUE]

disable(dm) == [enabled |-> FALSE, unlimited_hints |-> FALSE]

toggle_unlimited_hints(dm) ==
    IF dm.enabled /\ dm.unlimited_hints THEN disable(dm) ELSE enable_unlimited_hints(dm)

HintSystem_new(max_hints) == [hints_remaining |-> max_hints, max_hints |-> max_hints]

hint_reset(hs, max_hints) == [hints_remaining |-> max_hints, max_hints |-> max_hints]

\* use_hint that spends a hint in unlimited mode too.
use_hint_spends_when_unlimited(hs, dm) ==
    IF hs.hints_remaining > 0
    THEN [hs |-> [hs EXCEPT !.hints_remaining = hs.hints_remaining - 1], ret |-> TRUE]
    ELSE [hs |-> hs, ret |-> dm.unlimited_hints]

\* The result is the hint system after the call and the returned bool.
use_hint(hs, dm) ==
    IF dm.unlimited_hints
    THEN [hs |-> hs, ret |-> TRUE]
    ELSE IF hs.hints_remaining > 0
         THEN [hs |-> [hs EXCEPT !.hints_remaining = hs.hints_remaining - 1], ret |-> TRUE]
         ELSE [hs |-> hs, ret |-> FALSE]

can_use_hint(hs, dm) == dm.unlimited_hints \/ hs.hints_remaining > 0

(***************************************************************************)
(* Solution, hints                                                         *)
(***************************************************************************)
Solution_new == [cells |-> [r \in Idx |-> [c \in Idx |-> 0]]]

\* None unless the board is_complete(); then the values of its cells.
Solution_from_board(board) ==
    IF ~is_complete(board)
    THEN None
    ELSE Some([cells |-> [r \in Idx |-> [c \in Idx |-> board.cells[r][c][1]]]])

\* The candidates vector built without the test that the cell is empty.
hint_candidates_includes_filled(board, solution) ==
    LET open(p) == ~is_given_cell(board, p[1], p[2])
        found   == SelectSeq(row_major, open)
    IN  [i \in 1 .. Len(found) |->
           <<found[i][1], found[i][2], solution.cells[found[i][1]][found[i][2]]>>]

\* The candidates vector of get_next_hint, in the order it is built.
hint_candidates(board, solution) ==
    LET open(p) == is_none(board.cells[p[1]][p[2]]) /\ ~is_given_cell(board, p[1], p[2])
        found   == SelectSeq(row_major, open)
    IN  [i \in 1 .. Len(found) |->
           <<found[i][1], found[i][2], solution.cells[found[i][1]][found[i][2]]>>]

\* choice is the index candidates.choose() draws (any index of the vector).
get_next_hint(board, solution, choice) ==
    LET candidates == hint_candidates(board, solution)
    IN  IF Len(candidates) # 0 /\ choice \in 1 .. Len(candidates)
        THEN Some(candidates[choice])
        ELSE None

(***************************************************************************)
(* Puzzle generation by the legacy entry point generate_puzzle(givens):    *)
(* the standard path without the uniqueness check.  The random outcomes    *)
(* (the grid fill_board builds, the order positions.shuffle() leaves) are  *)
(* drawn from a bounded family.                                            *)
(***************************************************************************)
\* A complete valid grid, one of the grids fill_board can build.
filled_cells ==
    [r \in Idx |-> [c \in Idx |->
        Some((BOX_SIZE * (r % BOX_SIZE) + (r \div BOX_SIZE) + c) % GRID_SIZE)]]

\* The order positions.shuffle() leaves for outcome seed: a rotation of row-major.
shuffled(seed) ==
    [i \in 1 .. (GRID_SIZE * GRID_SIZE) |->
        row_major[((i - 1 + BOX_SIZE * seed) % (GRID_SIZE * GRID_SIZE)) + 1]]

\* The index i at which the enumerate() loop visits the cell (row, col).
visit_index(positions, row, col) ==
    CHOOSE i \in 0 .. (Len(positions) - 1) : positions[i + 1] = <<row, col>>

\* remove_numbers_for_puzzle that keeps the cell visited at index givens too.
remove_numbers_keeps_one_more(board, givens, positions) ==
    IF givens >= GRID_SIZE * GRID_SIZE
    THEN board
    ELSE [cells      |-> [r \in Idx |-> [c \in Idx |->
                            IF visit_index(positions, r, c) <= givens
                            THEN board.cells[r][c] ELSE None]],
          cell_types |-> [r \in Idx |-> [c \in Idx |->
                            IF visit_index(positions, r, c) <= givens
                            THEN Some("Given") ELSE None]]]

\* remove_numbers_for_puzzle that tags every cell Given, the emptied ones too.
remove_numbers_tags_all(board, givens, positions) ==
    IF givens >= GRID_SIZE * GRID_SIZE
    THEN board
    ELSE [cells      |-> [r \in Idx |-> [c \in Idx |->
                            IF visit_index(positions, r, c) < givens
                            THEN board.cells[r][c] ELSE None]],
          cell_types |-> [r \in Idx |-> [c \in Idx |-> Some("Given")]]]

\* The loop visits every cell once (positions is a permutation of the grid):
\* the cells visited at an index below givens are tagged Given, the others
\* are emptied.
remove_numbers_for_puzzle(board, givens, positions) ==
    IF givens >= GRID_SIZE * GRID_SIZE
    THEN board
    ELSE [cells      |-> [r \in Idx |-> [c \in Idx |->
                            IF visit_index(positions, r, c) < givens
                            THEN board.cells[r][c] ELSE None]],
          cell_types |-> [r \in Idx |-> [c \in Idx |->
                            IF visit_index(positions, r, c) < givens
                            THEN Some("Given") ELSE None]]]

\* The board and the Solution generate_puzzle(givens) leaves when the shuffle
\* has outcome seed.
generate_puzzle(givens, seed) ==
    LET filled   == [clear(BoardState_new) EXCEPT !.cells = filled_cells]
        solution == IF Solution_from_board(filled) = None
                    THEN Solution_new  \* unwrap_or_default()
                    ELSE Solution_from_board(filled)[1]
    IN  [board    |-> remove_numbers_for_puzzle(filled, givens, shuffled(seed)),
         solution |-> solution]

\* The order candidates_for_removal.shuffle() or positions.shuffle() leaves
\* for the outcomes that put the cells (0,0), (0,1), (3,0), (3,1) first
\* ("corner_first": these four, then the other cells in row-major order) or
\* last ("corner_last": the same order reversed).
candidates_for_removal(outcome) ==
    LET corner == <<<<0, 0>>, <<0, 1>>, <<BOX_SIZE, 0>>, <<BOX_SIZE, 1>>>>
        in_corner(p) == \E i \in 1 .. Len(corner) : corner[i] = p
        others(p) == ~in_corner(p)
        first  == corner \o SelectSeq(row_major, others)
    IN  IF outcome = "corner_first"
        THEN first
        ELSE [i \in 1 .. Len(first) |-> first[Len(first) + 1 - i]]

(***************************************************************************)
(* The backtracking searches solve_with_counter and fill_board, one step   *)
(* at a time.  A search is a record: fn names the function, board is the   *)
(* grid it works on, frames are the invocations that have placed a value   *)
(* and are inside their recursive call (the cell, and the position i of    *)
(* the placed value in the order the invocation tries the values in),      *)
(* count and cap are solution_count and max_solutions, pc is "call" on     *)
(* entry to an invocation, "ret" when an invocation has returned ret, and  *)
(* "done" when the outermost invocation has returned.  capped counts the   *)
(* values placed while solution_count >= max_solutions.                    *)
(***************************************************************************)
\* The outcomes of numbers.shuffle() in fill_board that are explored: the
\* order of the values an invocation at (row, col) tries.
FillOrders == {"asc", "desc", "col", "row"}

candidate_order(policy, row, col) ==
    [i \in 1 .. GRID_SIZE |->
        CASE policy = "asc"  -> i - 1
          [] policy = "desc" -> GRID_SIZE - i
          [] policy = "col"  -> (i - 1 + col) % GRID_SIZE
          [] policy = "row"  -> (i - 1 + row) % GRID_SIZE]

\* first_empty that does not look at the last row.
first_empty_skips_last_row(board) ==
    LET empty == {i \in 1 .. (Len(row_major) - GRID_SIZE) :
                    is_none(board.cells[row_major[i][1]][row_major[i][2]])}
    IN  IF empty = {} THEN None
        ELSE Some(row_major[CHOOSE i \in empty : \A j \in empty : i <= j])

\* The first cell, in row-major order, that is_none(); None when all are filled.
first_empty(board) ==
    LET empty == {i \in 1 .. Len(row_major) :
                    is_none(board.cells[row_major[i][1]][row_major[i][2]])}
    IN  IF empty = {} THEN None
        ELSE Some(row_major[CHOOSE i \in empty : \A j \in empty : i <= j])

\* The first position at or after i of order whose value is_valid_placement
\* accepts at (row, col); 0 when there is none.
next_valid(board, row, col, order, i) ==
    LET valid == {j \in i .. GRID_SIZE : is_valid_placement(board, row, col, order[j])}
    IN  IF valid = {} THEN 0 ELSE CHOOSE j \in valid : \A k \in valid : j <= k

search_start(fn, board, cap, policy) ==
    [fn |-> fn, board |-> board, frames |-> <<>>, count |-> 0, cap |-> cap,
     pc |-> "call", ret |-> FALSE, policy |-> policy, capped |-> 0]

\* The value loop of the invocation at (row, col), from position i of its
\* order: the next valid value is placed and the function is called again, or
\* the loop ends and the invocation returns false.
try_values(m, row, col, i) ==
    LET order == IF m.fn = "fill_board"
                 THEN candidate_order(m.policy, row, col)
                 ELSE candidate_order("asc", row, col)
        j     == next_valid(m.board, row, col, order, i)
    IN  IF j = 0
        THEN [m EXCEPT !.pc = "ret", !.ret = FALSE]
        ELSE [m EXCEPT !.board.cells[row][col] = Some(order[j]),
                       !.frames = Append(@, [row |-> row, col |-> col, i |-> j]),
                       !.pc = "call",
                       !.capped = IF m.fn = "solve_with_counter" /\ m.count >= m.cap
                                  THEN @ + 1 ELSE @]

\* The searches without the backtrack that empties the cell again.
search_step_keeps_cell(m) ==
    IF m.pc = "call"
    THEN IF m.fn = "solve_with_counter" /\ m.count >= m.cap
         THEN [m EXCEPT !.pc = "ret", !.ret = FALSE]
         ELSE IF first_empty(m.board) = None
              THEN IF m.fn = "solve_with_counter"
                   THEN [m EXCEPT !.count = @ + 1, !.pc = "ret", !.ret = FALSE]
                   ELSE [m EXCEPT !.pc = "ret", !.ret = TRUE]
              ELSE try_values(m, first_empty(m.board)[1][1], first_empty(m.board)[1][2], 1)
    ELSE IF m.frames = <<>>
         THEN [m EXCEPT !.pc = "done"]
         ELSE LET top    == m.frames[Len(m.frames)]
                  popped == [m EXCEPT !.frames = SubSeq(@, 1, Len(@) - 1)]
              IN  IF m.ret
                  THEN popped
                  ELSE [popped EXCEPT !.pc = "ret", !.ret = FALSE]

\* The searches without the return at entry once solution_count has reached
\* max_solutions.
search_step_without_early_exit(m) ==
    IF m.pc = "call"
    THEN IF first_empty(m.board) = None
         THEN IF m.fn = "solve_with_counter"
              THEN [m EXCEPT !.count = @ + 1, !.pc = "ret", !.ret = FALSE]
              ELSE [m EXCEPT !.pc = "ret", !.ret = TRUE]
         ELSE try_values(m, first_empty(m.board)[1][1], first_empty(m.board)[1][2], 1)
    ELSE IF m.frames = <<>>
         THEN [m EXCEPT !.pc = "done"]
         ELSE LET top    == m.frames[Len(m.frames)]
                  popped == [m EXCEPT !.frames = SubSeq(@, 1, Len(@) - 1)]
              IN  IF m.ret
                  THEN popped
                  ELSE try_values([popped EXCEPT !.board.cells[top.row][top.col] = None],
                                  top.row, top.col, top.i + 1)

\* One step of a search that is not done.
\*   pc = "call": solve_with_counter returns false at once when
\*     solution_count >= max_solutions; with no empty cell left it counts a
\*     solution and returns false, fill_board returns true; otherwise the
\*     value loop of the first empty cell starts.
\*   pc = "ret": the outermost invocation has returned, or the invocation
\*     that made the call returns true in its turn, or it empties its cell
\*     and goes on with its value loop.
search_step(m) ==
    IF m.pc = "call"
    THEN IF m.fn = "solve_with_counter" /\ m.count >= m.cap
         THEN [m EXCEPT !.pc = "ret", !.ret = FALSE]
         ELSE IF first_empty(m.board) = None
              THEN IF m.fn = "solve_with_counter"
                   THEN [m EXCEPT !.count = @ + 1, !.pc = "ret", !.ret = FALSE]
                   ELSE [m EXCEPT !.pc = "ret", !.ret = TRUE]
              ELSE try_values(m, first_empty(m.board)[1][1], first_empty(m.board)[1][2], 1)
    ELSE IF m.frames = <<>>
         THEN [m EXCEPT !.pc = "done"]
         ELSE LET top    == m.frames[Len(m.frames)]
                  popped == [m EXCEPT !.frames = SubSeq(@, 1, Len(@) - 1)]
              IN  IF m.ret
                  THEN popped
                  ELSE try_values([popped EXCEPT !.board.cells[top.row][top.col] = None],
                                  top.row, top.col, top.i + 1)

(***************************************************************************)
(* The controller: the resources run_game initialises and the systems of   *)
(* nine_lives_controller that act on them.                                 *)
(***************************************************************************)
VARIABLES board, history, session, hint_system, debug_mode, solution,
          clock,   \* the logical clock Instant::now() reads
          steps,   \* handlers run so far (the warm-up apart)
          last,    \* the last handler that ran: its name, arguments, result and
                   \* the resources as they were before it ran
          probe    \* the bookkeeping of the scenario a specification follows

vars == <<board, history, session, hint_system, debug_mode, solution, clock, steps,
          last, probe>>

\* The cells the pointer presses.
ClickCells == { <<8, 8>>, <<0, 2>>, <<8, 7>> }

\* The outcomes of positions.shuffle() that are explored.
Seeds == {0, 1}

GivensChoices == (GRID_SIZE * GRID_SIZE - MaxRemoved) .. (GRID_SIZE * GRID_SIZE)

Puzzles == {generate_puzzle(g, s) : g \in GivensChoices, s \in Seeds}

snapshot == [board |-> board, history |-> history, session |-> session,
             hint_system |-> hint_system, debug_mode |-> debug_mode]

\* The resources as run_game initialises them, the board and the solution
\* being those of puzzle.
NewGame(puzzle) ==
    /\ board = puzzle.board
    /\ solution = puzzle.solution
    /\ history = GameHistory_new
    /\ session = GameSession_new(0)
    /\ hint_system = HintSystem_new(DEFAULT_MAX_HINTS)
    /\ debug_mode = DebugMode_default
    /\ clock = 0
    /\ steps = 0
    /\ last = [op |-> "init", row |-> 0, col |-> 0, n |-> 0, arg |-> None,
               ret |-> None,
               pre |-> [board |-> puzzle.board, history |-> GameHistory_new,
                        session |-> GameSession_new(0),
                        hint_system |-> HintSystem_new(DEFAULT_MAX_HINTS),
                        debug_mode |-> DebugMode_default]]

\* What every handler leaves of itself in last.
Ran(op, row, col, n, arg, ret) ==
    last' = [op |-> op, row |-> row, col |-> col, n |-> n, arg |-> arg, ret |-> ret,
             pre |-> snapshot]

\* The first cell of ClickCells, in row-major order, that is not Given on b.
first_open(b) ==
    LET open == {i \in 1 .. Len(row_major) :
                    /\ row_major[i] \in ClickCells
                    /\ ~is_given_cell(b, row_major[i][1], row_major[i][2])}
    IN  IF open = {} THEN None
        ELSE Some(row_major[CHOOSE i \in open : \A j \in open : i <= j])

\* cell_click_system on a Pressed interaction of the cell (row, col): the
\* resources it writes and the Option<Move> cycle_cell returned.
cell_click(b, h, s, now, row, col) ==
    LET cycled == cycle_cell(b, row, col, NUM_EMOJIS, now)
    IN  IF is_some(cycled.ret)
        THEN [board   |-> cycled.board,
              history |-> add_move(h, cycled.ret[1]),
              session |-> increment_move(s),
              clock   |-> now + 1,
              ret     |-> cycled.ret]
        ELSE [board |-> b, history |-> h, session |-> s, clock |-> now, ret |-> None]

Press(row, col) ==
    LET next == cell_click(board, history, session, clock, row, col)
    IN  /\ board' = next.board
        /\ history' = next.history
        /\ session' = next.session
        /\ clock' = next.clock
        /\ Ran("cycle", row, col, NUM_EMOJIS, None, next.ret)
        /\ UNCHANGED <<hint_system, debug_mode, solution>>

\* cell_click_system: the cell (row, col) is pressed.
CellClick(row, col) ==
    /\ steps < MaxSteps
    /\ steps' = steps + 1
    /\ Press(row, col)
    /\ UNCHANGED probe

\* clear_button_system: the Clear Board button is pressed.
ClearButton ==
    /\ steps < MaxSteps
    /\ steps' = steps + 1
    /\ board' = clear(board)
    /\ Ran("clear", 0, 0, 0, None, None)
    /\ UNCHANGED <<history, session, hint_system, debug_mode, solution, clock, probe>>

\* undo_button_system, and the Cmd+Z branch of keyboard_shortcuts_system.
undo_step(b, h) ==
    LET game_move == peek_undo(h)
    IN  IF is_some(game_move)
        THEN [board |-> undo_move(b, game_move[1]), history |-> mark_undone(h),
              ret |-> game_move]
        ELSE [board |-> b, history |-> h, ret |-> None]

Undo ==
    /\ steps < MaxSteps
    /\ steps' = steps + 1
    /\ board' = undo_step(board, history).board
    /\ history' = undo_step(board, history).history
    /\ Ran("undo", 0, 0, 0, None, undo_step(board, history).ret)
    /\ UNCHANGED <<session, hint_system, debug_mode, solution, clock, probe>>

\* redo_button_system, and the Cmd+Shift+Z and Cmd+Y branches of
\* keyboard_shortcuts_system.
redo_step(b, h) ==
    LET game_move == peek_redo(h)
    IN  IF is_some(game_move)
        THEN [board |-> apply_move(b, game_move[1]), history |-> mark_redone(h),
              ret |-> game_move]
        ELSE [board |-> b, history |-> h, ret |-> None]

Redo ==
    /\ steps < MaxSteps
    /\ steps' = steps + 1
    /\ board' = redo_step(board, history).board
    /\ history' = redo_step(board, history).history
    /\ Ran("redo", 0, 0, 0, None, redo_step(board, history).ret)
    /\ UNCHANGED <<session, hint_system, debug_mode, solution, clock, probe>>

\* hint_button_system: the Hint button is pressed; choice is the index
\* candidates.choose() draws.
HintButton(choice) ==
    /\ steps < MaxSteps
    /\ steps' = steps + 1
    /\ LET used  == use_hint(hint_system, debug_mode)
           count == Len(hint_candidates(board, solution))
           hint  == IF used.ret THEN get_next_hint(board, solution, choice) ELSE None
       IN  /\ choice = 1 \/ (used.ret /\ choice <= count)
           /\ hint_system' = used.hs
           /\ board' = IF is_some(hint)
                       THEN [board EXCEPT
                               !.cells[hint[1][1]][hint[1][2]] = Some(hint[1][3]),
                               !.cell_types[hint[1][1]][hint[1][2]] = Some("Player")]
                       ELSE board
           /\ Ran("hint", 0, 0, 0, Some(used.ret), hint)
    /\ UNCHANGED <<history, session, debug_mode, solution, clock, probe>>

\* debug_mode_system: Cmd+D / Ctrl+D is pressed.
DebugToggle ==
    /\ steps < MaxSteps
    /\ steps' = steps + 1
    /\ debug_mode' = toggle_unlimited_hints(debug_mode)
    /\ Ran("debug", 0, 0, 0, None, None)
    /\ UNCHANGED <<board, history, session, hint_system, solution, clock, probe>>

Init ==
    /\ \E puzzle \in Puzzles : NewGame(puzzle)
    /\ probe = [scenario |-> "play"]

Next ==
    \/ \E p \in ClickCells : CellClick(p[1], p[2])
    \/ ClearButton
    \/ Undo
    \/ Redo
    \/ \E choice \in 1 .. MaxHintPick : HintButton(choice)
    \/ DebugToggle

Spec == Init /\ [][Next]_vars

(***************************************************************************)
(* Round trips.  k presses that cycle_cell accepts, then k presses of Undo, *)
(* then k presses of Redo.  A short trip presses any of ClickCells; a long *)
(* trip presses one editable cell, up to one press more than max_history.  *)
(***************************************************************************)
LongTrip == DEFAULT_MAX_HISTORY + 1

InitTrip ==
    \E puzzle \in Puzzles, long \in BOOLEAN :
        /\ long => puzzle = generate_puzzle(GRID_SIZE * GRID_SIZE - 1, 0)
        /\ NewGame(puzzle)
        /\ probe = [scenario |-> "trip", long |-> long, phase |-> "edit",
                    k |-> 0, done |-> 0, pre |-> puzzle.board, post |-> puzzle.board]

\* cell_click_system, the press being one that cycle_cell accepts.
TripEdit(row, col) ==
    /\ probe.phase = "edit"
    /\ IF probe.long
       THEN probe.k < LongTrip /\ Some(<<row, col>>) = first_open(board)
       ELSE probe.k < MaxSteps
    /\ is_some(cell_click(board, history, session, clock, row, col).ret)
    /\ Press(row, col)
    /\ probe' = [probe EXCEPT !.k = @ + 1]
    /\ UNCHANGED steps

\* The edits end; the grid they produced is the post-edit grid.
TripTurn ==
    /\ probe.phase = "edit"
    /\ probe' = [probe EXCEPT !.phase = "undo", !.post = board]
    /\ UNCHANGED <<board, history, session, hint_system, debug_mode, solution, clock,
                   steps, last>>

\* undo_button_system.
TripUndo ==
    /\ probe.phase = "undo"
    /\ probe.done < probe.k
    /\ board' = undo_step(board, history).board
    /\ history' = undo_step(board, history).history
    /\ Ran("undo", 0, 0, 0, None, undo_step(board, history).ret)
    /\ probe' = [probe EXCEPT !.done = @ + 1]
    /\ UNCHANGED <<session, hint_system, debug_mode, solution, clock, steps>>

\* The k undos are done.
TripTurnBack ==
    /\ probe.phase = "undo"
    /\ probe.done = probe.k
    /\ probe' = [probe EXCEPT !.phase = "redo", !.done = 0]
    /\ UNCHANGED <<board, history, session, hint_system, debug_mode, solution, clock,
                   steps, last>>

\* redo_button_system.
TripRedo ==
    /\ probe.phase = "redo"
    /\ probe.done < probe.k
    /\ board' = redo_step(board, history).board
    /\ history' = redo_step(board, history).history
    /\ Ran("redo", 0, 0, 0, None, redo_step(board, history).ret)
    /\ probe' = [probe EXCEPT !.done = @ + 1]
    /\ UNCHANGED <<session, hint_system, debug_mode, solution, clock, steps>>

NextTrip ==
    \/ \E p \in ClickCells : TripEdit(p[1], p[2])
    \/ TripTurn
    \/ TripUndo
    \/ TripTurnBack
    \/ TripRedo

SpecTrip == InitTrip /\ [][NextTrip]_vars

(***************************************************************************)
(* GameHistory called directly, with arbitrary moves.  The warm-up adds    *)
(* moves until the log is one entry short of max_history; the calls are    *)
(* explored from the empty log and from there.                             *)
(***************************************************************************)
\* The moves add_move is called with (now: the timestamp).
ApiMoves(now) ==
    { [row |-> 8, col |-> 8, old_value |-> None, new_value |-> Some(0), timestamp |-> now],
      [row |-> 0, col |-> 0, old_value |-> Some(1), new_value |-> Some(2), timestamp |-> now] }

InitHistory ==
    /\ NewGame(generate_puzzle(GRID_SIZE * GRID_SIZE - 1, 0))
    /\ probe = [scenario |-> "warm"]

HistoryFrame == UNCHANGED <<board, session, hint_system, debug_mode, solution, probe>>

Called == probe.scenario = "play" /\ steps < MaxSteps /\ steps' = steps + 1

HistoryWarmUp ==
    /\ probe.scenario = "warm"
    /\ Len(history.moves) < DEFAULT_MAX_HISTORY - 1
    /\ \E m \in ApiMoves(clock) :
         /\ m.row = 8
         /\ history' = add_move(history, m)
         /\ Ran("add_move", 0, 0, 0, Some(m), None)
    /\ clock' = clock + 1
    /\ UNCHANGED steps
    /\ HistoryFrame

HistoryWarmUpEnds ==
    /\ probe.scenario = "warm"
    /\ Len(history.moves) \in {0, DEFAULT_MAX_HISTORY - 1}
    /\ probe' = [scenario |-> "play"]
    /\ UNCHANGED <<board, history, session, hint_system, debug_mode, solution, clock,
                   steps, last>>

ApiAddMove(m) ==
    /\ Called
    /\ history' = add_move(history, m)
    /\ clock' = clock + 1
    /\ Ran("add_move", 0, 0, 0, Some(m), None)
    /\ HistoryFrame

ApiMarkUndone ==
    /\ Called
    /\ history' = mark_undone(history)
    /\ Ran("mark_undone", 0, 0, 0, None, None)
    /\ UNCHANGED clock
    /\ HistoryFrame

ApiMarkRedone ==
    /\ Called
    /\ history' = mark_redone(history)
    /\ Ran("mark_redone", 0, 0, 0, None, None)
    /\ UNCHANGED clock
    /\ HistoryFrame

ApiHistoryClear ==
    /\ Called
    /\ history' = history_clear(history)
    /\ Ran("history_clear", 0, 0, 0, None, None)
    /\ UNCHANGED clock
    /\ HistoryFrame

\* peek_undo and peek_redo take &self: they return a value and write nothing.
ApiPeekUndo ==
    /\ Called
    /\ Ran("peek_undo", 0, 0, 0, None, peek_undo(history))
    /\ UNCHANGED <<history, clock>>
    /\ HistoryFrame

ApiPeekRedo ==
    /\ Called
    /\ Ran("peek_redo", 0, 0, 0, None, peek_redo(history))
    /\ UNCHANGED <<history, clock>>
    /\ HistoryFrame

NextHistory ==
    \/ HistoryWarmUp
    \/ HistoryWarmUpEnds
    \/ \E m \in ApiMoves(clock) : ApiAddMove(m)
    \/ ApiMarkUndone
    \/ ApiMarkRedone
    \/ ApiHistoryClear
    \/ ApiPeekUndo
    \/ ApiPeekRedo

SpecHistory == InitHistory /\ [][NextHistory]_vars

(***************************************************************************)
(* BoardState called directly: cycle_cell with any symbol count, apply_move *)
(* and undo_move with arbitrary moves, moves that name a Given cell        *)
(* included.                                                               *)
(***************************************************************************)
ApiCells == { <<8, 8>>, <<0, 2>> }

\* The symbol counts cycle_cell is called with.
EmojiCounts == {1, NUM_EMOJIS}

\* The moves apply_move and undo_move are called with.
BoardMoves(now) ==
    { [row |-> p[1], col |-> p[2], old_value |-> Some(5), new_value |-> None,
       timestamp |-> now] : p \in ApiCells }

BoardFrame == UNCHANGED <<history, session, hint_system, debug_mode, solution, probe>>

ApiCycleCell(row, col, n) ==
    /\ Called
    /\ LET cycled == cycle_cell(board, row, col, n, clock)
       IN  /\ board' = cycled.board
           /\ clock' = IF is_some(cycled.ret) THEN clock + 1 ELSE clock
           /\ Ran("cycle_cell", row, col, n, None, cycled.ret)
    /\ BoardFrame

ApiApplyMove(m) ==
    /\ Called
    /\ board' = apply_move(board, m)
    /\ Ran("apply_move", m.row, m.col, 0, Some(m), None)
    /\ UNCHANGED clock
    /\ BoardFrame

ApiUndoMove(m) ==
    /\ Called
    /\ board' = undo_move(board, m)
    /\ Ran("undo_move", m.row, m.col, 0, Some(m), None)
    /\ UNCHANGED clock
    /\ BoardFrame

NextBoard ==
    \/ \E p \in ApiCells, n \in EmojiCounts : ApiCycleCell(p[1], p[2], n)
    \/ \E m \in BoardMoves(clock) : ApiApplyMove(m)
    \/ \E m \in BoardMoves(clock) : ApiUndoMove(m)

SpecBoard == Init /\ [][NextBoard]_vars

(***************************************************************************)
(* One cell cycled again and again with one symbol count.  trail is the    *)
(* value of the cell at the start and after every call.                    *)
(***************************************************************************)
CycleCounts == (1 .. MaxSymbols) \cup {NUM_EMOJIS}

InitCycle ==
    \E puzzle \in Puzzles, p \in ClickCells, n \in CycleCounts :
        /\ NewGame(puzzle)
        /\ probe = [scenario |-> "cycle", row |-> p[1], col |-> p[2], n |-> n,
                    trail |-> <<puzzle.board.cells[p[1]][p[2]]>>]

CycleAgain ==
    /\ Len(probe.trail) < 2 * probe.n + 2
    /\ LET cycled == cycle_cell(board, probe.row, probe.col, probe.n, clock)
       IN  /\ board' = cycled.board
           /\ clock' = IF is_some(cycled.ret) THEN clock + 1 ELSE clock
           /\ Ran("cycle_cell", probe.row, probe.col, probe.n, None, cycled.ret)
           /\ probe' = [probe EXCEPT
                          !.trail = Append(@, cycled.board.cells[probe.row][probe.col])]
    /\ UNCHANGED <<history, session, hint_system, debug_mode, solution, steps>>

NextCycle == CycleAgain

SpecCycle == InitCycle /\ [][NextCycle]_vars

(***************************************************************************)
(* cycle_cell called with any symbol count, zero included.  The remainder  *)
(* (idx + 1) % num_emojis panics when num_emojis is 0: the process aborts  *)
(* inside the call, before anything is written, and no call follows.       *)
(***************************************************************************)
\* cycle_cell reaches "% num_emojis" with a zero divisor.
cycle_cell_panics(b, row, col, num_emojis) ==
    /\ b.cell_types[row][col] # Some("Given")
    /\ b.cells[row][col] # None
    /\ num_emojis = 0

InitPanic ==
    /\ \E puzzle \in Puzzles : NewGame(puzzle)
    /\ probe = [scenario |-> "running"]

CycleWith(row, col, n) ==
    /\ probe.scenario = "running"
    /\ steps < MaxSteps
    /\ steps' = steps + 1
    /\ IF cycle_cell_panics(board, row, col, n)
       THEN /\ probe' = [scenario |-> "aborted"]
            /\ Ran("cycle_cell", row, col, n, None, None)
            /\ UNCHANGED <<board, clock>>
       ELSE LET cycled == cycle_cell(board, row, col, n, clock)
            IN  /\ board' = cycled.board
                /\ clock' = IF is_some(cycled.ret) THEN clock + 1 ELSE clock
                /\ Ran("cycle_cell", row, col, n, None, cycled.ret)
                /\ UNCHANGED probe
    /\ UNCHANGED <<history, session, hint_system, debug_mode, solution>>

NextPanic == \E p \in ClickCells, n \in 0 .. MaxSymbols : CycleWith(p[1], p[2], n)

SpecPanic == InitPanic /\ [][NextPanic]_vars

(***************************************************************************)
(* is_valid_placement asked of grids that clear and apply_move build.      *)
(***************************************************************************)
\* (0,5) shares the row of (0,0), (5,0) its column, (1,1) only its box, and
\* (4,4) none of them.
PlaceCells == { <<0, 0>>, <<0, 5>>, <<5, 0>>, <<1, 1>>, <<4, 4>> }

PlaceValues == {0, 1}

PlaceMoves(now) ==
    { [row |-> p[1], col |-> p[2], old_value |-> None, new_value |-> v,
       timestamp |-> now] : p \in PlaceCells, v \in {None} \cup {Some(x) : x \in PlaceValues} }

PlaceFrame == UNCHANGED <<history, session, hint_system, debug_mode, solution, clock,
                          steps, probe>>

ApiClear ==
    /\ board' = clear(board)
    /\ Ran("clear", 0, 0, 0, None, None)
    /\ PlaceFrame

ApiPlace(m) ==
    /\ board' = apply_move(board, m)
    /\ Ran("apply_move", m.row, m.col, 0, Some(m), None)
    /\ PlaceFrame

ApiIsValidPlacement(row, col, value) ==
    /\ Ran("is_valid_placement", row, col, value, None,
           Some(is_valid_placement(board, row, col, value)))
    /\ UNCHANGED board
    /\ PlaceFrame

ApiGetConflicts ==
    /\ Ran("get_conflicts", 0, 0, 0, None, Some(get_conflicts(board)))
    /\ UNCHANGED board
    /\ PlaceFrame

ApiIsComplete ==
    /\ Ran("is_complete", 0, 0, 0, None, Some(is_complete(board)))
    /\ UNCHANGED board
    /\ PlaceFrame

ApiComputeGameState ==
    /\ Ran("compute_game_state", 0, 0, 0, None, Some(compute_game_state(board)))
    /\ UNCHANGED board
    /\ PlaceFrame

NextPlace ==
    \/ ApiClear
    \/ \E m \in PlaceMoves(clock) : ApiPlace(m)
    \/ \E p \in PlaceCells, v \in PlaceValues : ApiIsValidPlacement(p[1], p[2], v)
    \/ ApiGetConflicts
    \/ ApiIsComplete
    \/ ApiComputeGameState

SpecPlace == Init /\ [][NextPlace]_vars

(***************************************************************************)
(* GameSession and HintSystem called in any order, the one or the other.   *)
(* Between the calls on the session the clock may advance.  probe.active   *)
(* is the time that has passed while the session was not paused since it   *)
(* was created or reset; probe.served counts the calls of use_hint that    *)
(* returned true outside unlimited mode since the last reset.              *)
(***************************************************************************)
InitSession ==
    /\ NewGame([board |-> BoardState_new, solution |-> Solution_new])
    /\ \E scenario \in {"session", "hints"} :
          probe = [scenario |-> scenario, active |-> 0, served |-> 0]

\* A call on the GameSession, or ("elapse") the clock advancing by one.
ApiSession(op) ==
    /\ probe.scenario = "session"
    /\ steps < MaxSteps
    /\ steps' = steps + 1
    /\ clock' = IF op = "elapse" THEN clock + 1 ELSE clock
    /\ session' = CASE op = "pause"          -> pause(session, clock)
                    [] op = "resume"         -> resume(session)
                    [] op = "increment_move" -> increment_move(session)
                    [] op = "reset"          -> session_reset(session, clock)
                    [] OTHER                 -> session
    /\ probe' = [probe EXCEPT !.active = CASE op = "reset" -> 0
                                           [] op = "elapse" /\ ~session.is_paused -> @ + 1
                                           [] OTHER -> @]
    /\ Ran(op, 0, 0, 0, None,
           IF op = "current_elapsed" THEN Some(current_elapsed(session, clock)) ELSE None)
    /\ UNCHANGED <<board, history, hint_system, debug_mode, solution>>

\* A call on the HintSystem (reset with one of the presets' max_hints), or
\* the unlimited mode toggled.
ApiHint(op, max_hints) ==
    /\ probe.scenario = "hints"
    /\ steps < MaxSteps
    /\ steps' = steps + 1
    /\ op = "hint_reset" \/ max_hints = 0
    /\ hint_system' = CASE op = "use_hint"   -> use_hint(hint_system, debug_mode).hs
                        [] op = "hint_reset" -> hint_reset(hint_system, max_hints)
                        [] OTHER             -> hint_system
    /\ debug_mode' = IF op = "toggle_unlimited_hints"
                     THEN toggle_unlimited_hints(debug_mode) ELSE debug_mode
    /\ probe' = [probe EXCEPT !.served =
                    CASE op = "hint_reset" -> 0
                      [] /\ op = "use_hint"
                         /\ ~debug_mode.unlimited_hints
                         /\ use_hint(hint_system, debug_mode).ret -> @ + 1
                      [] OTHER -> @]
    /\ Ran(op, 0, 0, max_hints, None,
           CASE op = "use_hint"     -> Some(use_hint(hint_system, debug_mode).ret)
             [] op = "can_use_hint" -> Some(can_use_hint(hint_system, debug_mode))
             [] OTHER               -> None)
    /\ UNCHANGED <<board, history, session, solution, clock>>

NextSession ==
    \/ \E op \in {"pause", "resume", "increment_move", "reset", "current_elapsed",
                  "elapse"} : ApiSession(op)
    \/ \E op \in {"use_hint", "can_use_hint", "hint_reset", "toggle_unlimited_hints"},
          max_hints \in {0, 2, 3, 5} : ApiHint(op, max_hints)

SpecSession == InitSession /\ [][NextSession]_vars


(***************************************************************************)
(* The searches run on the grids the program and its tests give them: the  *)
(* new board, the board with the three clues of the tests, the grid        *)
(* fill_board builds from the new board, and that grid with cells emptied  *)
(* or overwritten.  One search runs at a time; probe.given is the grid it  *)
(* was given.                                                              *)
(***************************************************************************)
\* validate_unique_solution's result, from the count the search ended with,
\* taken for any count at least 1.
validate_result_at_least_one(count) == count >= 1

\* validate_unique_solution's result, from the count the search ended with.
validate_result(count) == count = 1

InputKinds == {"complete", "one_hole", "rectangle", "conflict_complete",
               "conflict_hole", "stuck"}

\* The three clues of test_uniqueness_validation_algorithm.
three_clues ==
    [BoardState_new EXCEPT !.cells[0][0] = Some(0), !.cells[1][1] = Some(1),
                           !.cells[2][2] = Some(2)]

\* A grid made of the complete grid `grid`:
\*   one_hole           the last cell emptied;
\*   rectangle          the cells (0,0), (0,1), (3,0), (3,1) emptied;
\*   conflict_complete  (0,1) holds the value of (0,0);
\*   conflict_hole      the same, and the last cell emptied;
\*   stuck              (0,0) emptied, (0,1) holds the value (0,0) held, and
\*                      the cell of column 1 that held that value is emptied.
make_input(grid, kind) ==
    CASE kind = "complete" -> grid
      [] kind = "one_hole" -> [grid EXCEPT !.cells[8][8] = None]
      [] kind = "rectangle" ->
            [grid EXCEPT !.cells[0][0] = None, !.cells[0][1] = None,
                         !.cells[3][0] = None, !.cells[3][1] = None]
      [] kind = "conflict_complete" -> [grid EXCEPT !.cells[0][1] = grid.cells[0][0]]
      [] kind = "conflict_hole" ->
            [grid EXCEPT !.cells[0][1] = grid.cells[0][0], !.cells[8][8] = None]
      [] kind = "stuck" ->
            [grid EXCEPT !.cells[CHOOSE r \in Idx : grid.cells[r][1] = grid.cells[0][0]][1] = None,
                         !.cells[0][1] = grid.cells[0][0],
                         !.cells[0][0] = None]

InitSearch ==
    /\ NewGame([board |-> BoardState_new, solution |-> Solution_new])
    /\ probe = [scenario |-> "search", stage |-> "new", kind |-> "new", call |-> "none",
                after |-> "end", given |-> BoardState_new,
                m |-> [search_start("none", BoardState_new, 0, "asc") EXCEPT !.pc = "done"]]

SearchFrame == UNCHANGED <<history, session, hint_system, debug_mode, solution, clock,
                           steps>>

\* The caller writes the three clues into the cells of the new board.
SetUpClues ==
    /\ probe.stage = "new"
    /\ board' = three_clues
    /\ probe' = [probe EXCEPT !.stage = "input", !.kind = "three_clues"]
    /\ UNCHANGED last
    /\ SearchFrame

\* The caller empties or overwrites cells of the grid fill_board built.
SetUpInput(kind) ==
    /\ probe.stage = "filled"
    /\ board' = make_input(board, kind)
    /\ probe' = [probe EXCEPT !.stage = "input", !.kind = kind]
    /\ UNCHANGED last
    /\ SearchFrame

\* self.fill_board() is called; policy is the outcome of the shuffles.
StartFill(policy) ==
    /\ probe.stage \in {"new", "input"}
    /\ probe' = [probe EXCEPT !.stage = "running", !.call = "fill_board",
                              !.after = IF probe.stage = "new" THEN "filled" ELSE "end",
                              !.given = board,
                              !.m = search_start("fill_board", board, 0, policy)]
    /\ UNCHANGED <<board, last>>
    /\ SearchFrame

\* fill_board works on self.
FillStep ==
    /\ probe.stage = "running"
    /\ probe.m.fn = "fill_board"
    /\ probe.m.pc # "done"
    /\ probe' = [probe EXCEPT !.m = search_step(probe.m)]
    /\ board' = search_step(probe.m).board
    /\ UNCHANGED last
    /\ SearchFrame

FillReturns ==
    /\ probe.stage = "running"
    /\ probe.m.fn = "fill_board"
    /\ probe.m.pc = "done"
    /\ probe' = [probe EXCEPT !.stage = probe.after]
    /\ Ran("fill_board", 0, 0, 0, None, Some(probe.m.ret))
    /\ UNCHANGED board
    /\ SearchFrame

\* solve_with_counter(&mut copy, &mut 0, cap) is called on a copy of the board.
StartSolve(cap) ==
    /\ probe.stage \in {"new", "input"}
    /\ probe' = [probe EXCEPT !.stage = "running", !.call = "solve_with_counter",
                              !.given = board,
                              !.m = search_start("solve_with_counter", board, cap, "asc")]
    /\ UNCHANGED <<board, last>>
    /\ SearchFrame

\* validate_unique_solution(&board) is called: it clones the board and calls
\* solve_with_counter with the cap 2.
StartValidate ==
    /\ probe.stage \in {"new", "input"}
    /\ probe' = [probe EXCEPT !.stage = "running", !.call = "validate_unique_solution",
                              !.given = board,
                              !.m = search_start("solve_with_counter", board,
                                                 UNIQUENESS_CAP, "asc")]
    /\ UNCHANGED <<board, last>>
    /\ SearchFrame

\* solve_with_counter works on the grid it was passed.
SolveStep ==
    /\ probe.stage = "running"
    /\ probe.m.fn = "solve_with_counter"
    /\ probe.m.pc # "done"
    /\ probe' = [probe EXCEPT !.m = search_step(probe.m)]
    /\ UNCHANGED <<board, last>>
    /\ SearchFrame

SolveReturns ==
    /\ probe.stage = "running"
    /\ probe.call = "solve_with_counter"
    /\ probe.m.pc = "done"
    /\ probe' = [probe EXCEPT !.stage = "end"]
    /\ Ran("solve_with_counter", 0, 0, probe.m.cap, None, Some(probe.m.count))
    /\ UNCHANGED board
    /\ SearchFrame

ValidateReturns ==
    /\ probe.stage = "running"
    /\ probe.call = "validate_unique_solution"
    /\ probe.m.pc = "done"
    /\ probe' = [probe EXCEPT !.stage = "end"]
    /\ Ran("validate_unique_solution", 0, 0, 0, None, Some(validate_result(probe.m.count)))
    /\ UNCHANGED board
    /\ SearchFrame

NextSearch ==
    \/ SetUpClues
    \/ \E kind \in InputKinds : SetUpInput(kind)
    \/ \E policy \in FillOrders : StartFill(policy)
    \/ FillStep
    \/ FillReturns
    \/ \E cap \in 1 .. MaxCap : StartSolve(cap)
    \/ StartValidate
    \/ SolveStep
    \/ SolveReturns
    \/ ValidateReturns

SpecSearch == InitSearch /\ [][NextSearch]_vars

(***************************************************************************)
(* generate_puzzle_with_settings, called once on the new board.  probe     *)
(* holds the locals of the call: settings, attempt, the search that runs   *)
(* (m; fill_board works on the board itself, validate_unique_solution on a *)
(* clone), solution, and in generate_expert_unique_puzzle the shuffled     *)
(* candidates (positions), the number of candidates visited (k), the       *)
(* target, removals_made and the saved original value and tag; ret is the  *)
(* Option<Solution> the call returned, given the board it was called on.   *)
(* first is the outcome of an earlier call with the same settings.         *)
(***************************************************************************)
\* The settings the call is made with: the standard and the Expert path,
\* with and without the uniqueness requirement, givens ranges with
\* 81 - MaxCleared <= min <= max <= 81.
GenProfiles ==
    [difficulty : {"Easy", "Expert"},
     require_unique_solution : BOOLEAN,
     givens_range : {<<GRID_SIZE * GRID_SIZE - MaxCleared, GRID_SIZE * GRID_SIZE - MaxCleared>>,
                     <<GRID_SIZE * GRID_SIZE - MaxCleared, GRID_SIZE * GRID_SIZE>>,
                     <<GRID_SIZE * GRID_SIZE, GRID_SIZE * GRID_SIZE>>}]

InitGen ==
    /\ NewGame([board |-> BoardState_new, solution |-> Solution_new])
    /\ probe = [scenario |-> "generate", stage |-> "idle", phase |-> "none",
                settings |-> CHOOSE settings \in GenProfiles : TRUE,
                attempt |-> 0,
                m |-> [search_start("none", BoardState_new, 0, "asc") EXCEPT !.pc = "done"],
                solution |-> None, positions |-> <<>>, k |-> 0, target |-> 0,
                removals_made |-> 0,
                original |-> [value |-> None, type |-> None],
                given |-> BoardState_new,
                ret |-> None,
                first |-> None]

\* The call returns ret.
GenReturn(ret) ==
    /\ probe' = [probe EXCEPT !.stage = "returned", !.ret = ret]
    /\ Ran("generate_puzzle_with_settings", 0, 0, 0, None, ret)

\* `continue` that counts the failed attempt twice.
GenContinue_counts_twice == probe' = [probe EXCEPT !.stage = "attempt", !.attempt = @ + 2]

\* An attempt has failed: `continue`.
GenContinue == probe' = [probe EXCEPT !.stage = "attempt", !.attempt = @ + 1]

GenCall(settings) ==
    /\ probe.scenario = "generate"
    /\ probe.stage = "idle"
    /\ probe' = [probe EXCEPT !.stage = "attempt", !.settings = settings, !.attempt = 0,
                              !.given = board]
    /\ UNCHANGED <<board, last>>
    /\ SearchFrame

\* The head of the attempt loop: after max_attempts attempts the call returns
\* None; otherwise the board is cleared and fill_board is called (policy is
\* the outcome of its shuffles).
GenAttempt(policy) ==
    /\ probe.scenario = "generate"
    /\ probe.stage = "attempt"
    /\ IF probe.attempt >= (IF probe.settings.require_unique_solution THEN 15 ELSE 3)
       THEN /\ GenReturn(None)
            /\ UNCHANGED board
       ELSE /\ board' = clear(board)
            /\ probe' = [probe EXCEPT !.stage = "running", !.phase = "fill",
                                      !.m = search_start("fill_board", clear(board), 0,
                                                         policy)]
            /\ UNCHANGED last
    /\ SearchFrame

\* fill_board has returned.  false: the next attempt.  true: the solution is
\* taken from the board; on the Expert path with the uniqueness requirement
\* generate_expert_unique_puzzle starts (the candidates are shuffled, the
\* target is drawn); on the standard path the target is drawn,
\* remove_numbers_for_puzzle runs (outcome is the outcome of its shuffle) and
\* validate_unique_solution is called if uniqueness is required.
GenFilled(target, outcome) ==
    /\ probe.scenario = "generate"
    /\ probe.stage = "running"
    /\ probe.phase = "fill"
    /\ probe.m.pc = "done"
    /\ target \in probe.settings.givens_range[1] .. probe.settings.givens_range[2]
    /\ IF ~probe.m.ret
       THEN /\ GenContinue
            /\ UNCHANGED <<board, last>>
       ELSE IF Solution_from_board(board) = None
       THEN /\ GenReturn(None)
            /\ UNCHANGED board
       ELSE IF probe.settings.difficulty = "Expert" /\ probe.settings.require_unique_solution
       THEN /\ probe' = [probe EXCEPT !.stage = "expert", !.phase = "expert",
                                      !.solution = Solution_from_board(board),
                                      !.positions = candidates_for_removal(outcome),
                                      !.k = 0, !.target = target, !.removals_made = 0]
            /\ UNCHANGED <<board, last>>
       ELSE LET removed == remove_numbers_for_puzzle(board, target,
                                                     candidates_for_removal(outcome))
            IN  /\ board' = removed
                /\ IF probe.settings.require_unique_solution
                   THEN /\ probe' = [probe EXCEPT
                                       !.phase = "standard",
                                       !.solution = Solution_from_board(board),
                                       !.target = target,
                                       !.m = search_start("solve_with_counter", removed,
                                                          UNIQUENESS_CAP, "asc")]
                        /\ UNCHANGED last
                   ELSE /\ probe' = [probe EXCEPT !.stage = "returned",
                                                  !.phase = "standard",
                                                  !.solution = Solution_from_board(board),
                                                  !.target = target,
                                                  !.ret = Solution_from_board(board)]
                        /\ Ran("generate_puzzle_with_settings", 0, 0, 0, None,
                               Solution_from_board(board))
    /\ SearchFrame

\* The removal loop of generate_expert_unique_puzzle.  With enough removals
\* made or no candidate left, the remaining cells are tagged Given and the
\* number of givens is tested against the range; otherwise the next
\* candidate is emptied and validate_unique_solution is called.
GenExpertNext ==
    /\ probe.scenario = "generate"
    /\ probe.stage = "expert"
    /\ IF \/ probe.removals_made >= GRID_SIZE * GRID_SIZE - probe.target
          \/ probe.k = Len(probe.positions)
       THEN LET tagged == [board EXCEPT !.cell_types =
                              [r \in Idx |-> [c \in Idx |->
                                  IF is_some(board.cells[r][c])
                                  THEN Some("Given") ELSE board.cell_types[r][c]]]]
                final_givens == Cardinality({p \in Idx \X Idx :
                                               is_some(board.cells[p[1]][p[2]])})
            IN  /\ board' = tagged
                /\ IF /\ final_givens >= probe.settings.givens_range[1]
                      /\ final_givens <= probe.settings.givens_range[2]
                   THEN GenReturn(probe.solution)
                   ELSE GenContinue /\ UNCHANGED last
       ELSE LET row == probe.positions[probe.k + 1][1]
                col == probe.positions[probe.k + 1][2]
                emptied == [board EXCEPT !.cells[row][col] = None,
                                         !.cell_types[row][col] = None]
            IN  /\ board' = emptied
                /\ probe' = [probe EXCEPT
                               !.stage = "running", !.k = @ + 1,
                               !.original = [value |-> board.cells[row][col],
                                             type |-> board.cell_types[row][col]],
                               !.m = search_start("solve_with_counter", emptied,
                                                  UNIQUENESS_CAP, "asc")]
                /\ UNCHANGED last
    /\ SearchFrame

\* validate_unique_solution has returned.  On the standard path its result is
\* the success of the attempt; in generate_expert_unique_puzzle the removal
\* is counted, or the candidate gets its value and tag back.
GenValidated ==
    /\ probe.scenario = "generate"
    /\ probe.stage = "running"
    /\ probe.phase \in {"standard", "expert"}
    /\ probe.m.pc = "done"
    /\ IF probe.phase = "standard"
       THEN /\ IF validate_result(probe.m.count)
               THEN GenReturn(probe.solution)
               ELSE GenContinue /\ UNCHANGED last
            /\ UNCHANGED board
       ELSE LET row == probe.positions[probe.k][1]
                col == probe.positions[probe.k][2]
            IN  /\ IF validate_result(probe.m.count)
                   THEN /\ probe' = [probe EXCEPT !.stage = "expert",
                                                  !.removals_made = @ + 1]
                        /\ UNCHANGED board
                   ELSE /\ probe' = [probe EXCEPT !.stage = "expert"]
                        /\ board' = [board EXCEPT
                                       !.cells[row][col] = probe.original.value,
                                       !.cell_types[row][col] = probe.original.type]
                /\ UNCHANGED last
    /\ SearchFrame

NextGen ==
    \/ \E settings \in GenProfiles : GenCall(settings)
    \/ \E policy \in {"asc", "col"} : GenAttempt(policy)
    \/ FillStep
    \/ \E target \in (GRID_SIZE * GRID_SIZE - MaxCleared) .. (GRID_SIZE * GRID_SIZE),
          outcome \in {"corner_first", "corner_last"} : GenFilled(target, outcome)
    \/ GenExpertNext
    \/ SolveStep
    \/ GenValidated

SpecGen == InitGen /\ [][NextGen]_vars

(***************************************************************************)
(* Two calls of generate_puzzle_with_settings with the same settings, each *)
(* on a board of its own, the settings naming a seed.  The call reads      *)
(* settings.seed only to print a note: the shuffles and the target are     *)
(* drawn from thread_rng() as without a seed.                              *)
(***************************************************************************)
\* The first call has returned; the second call is made on a new board.
GenCallAgain ==
    /\ probe.scenario = "generate"
    /\ probe.stage = "returned"
    /\ probe.first = None
    /\ board' = BoardState_new
    /\ probe' = [probe EXCEPT !.stage = "attempt", !.attempt = 0,
                              !.given = BoardState_new, !.ret = None,
                              !.first = Some([board |-> board, ret |-> probe.ret])]
    /\ UNCHANGED last
    /\ SearchFrame

NextSeed ==
    \/ \E seed \in {0, 1} :
          GenCall([difficulty |-> "Easy", require_unique_solution |-> FALSE,
                   givens_range |-> <<GRID_SIZE * GRID_SIZE - MaxCleared,
                                      GRID_SIZE * GRID_SIZE>>,
                   seed |-> Some(seed)])
    \/ \E policy \in {"asc", "col"} : GenAttempt(policy)
    \/ FillStep
    \/ \E target \in (GRID_SIZE * GRID_SIZE - MaxCleared) .. (GRID_SIZE * GRID_SIZE),
          outcome \in {"corner_first", "corner_last"} : GenFilled(target, outcome)
    \/ GenCallAgain

SpecSeed == InitGen /\ [][NextSeed]_vars

(***************************************************************************)
(* New puzzles.  The application starts with the resources as run_game     *)
(* initialises them; Start Game may be pressed at any time (New Game only  *)
(* leads back to the customization screen), and cells, Undo and Hint be    *)
(* pressed in between.                                                     *)
(***************************************************************************)
\* transition_to_game on a press of Start Game with the preset selected.
\* succeeded tells whether generate_puzzle_with_settings returned a Solution;
\* the puzzle it leaves then is taken to be the one remove_numbers_for_puzzle
\* leaves for the smallest target of the preset, the fallback puzzle is
\* generate_puzzle(35).
StartGame(preset, succeeded) ==
    /\ steps < MaxSteps
    /\ steps' = steps + 1
    /\ LET settings == CASE preset = "CozyKitten" ->
                              [givens_range |-> <<35, 40>>, max_hints |-> 5]
                         [] preset = "NightProwler" ->
                              [givens_range |-> <<22, 26>>, max_hints |-> 0]
           puzzle   == IF succeeded
                       THEN generate_puzzle(settings.givens_range[1], 0)
                       ELSE generate_puzzle(35, 0)
       IN  /\ board' = puzzle.board
           /\ solution' = puzzle.solution
           /\ session' = session_reset(session, clock)
           /\ history' = history_clear(history)
           /\ hint_system' = hint_reset(hint_system, settings.max_hints)
           /\ Ran("start_game", 0, 0, settings.max_hints, None, Some(succeeded))
    /\ UNCHANGED <<debug_mode, clock, probe>>

NextStart ==
    \/ \E preset \in {"CozyKitten", "NightProwler"}, succeeded \in BOOLEAN :
          StartGame(preset, succeeded)
    \/ \E p \in ClickCells : CellClick(p[1], p[2])
    \/ Undo
    \/ HintButton(1)

SpecStart == InitSearch /\ [][NextStart]_vars




(***************************************************************************)
(* Properties.  last names the handler or call that ran last, with its     *)
(* arguments, its result and the resources as they were before it ran.     *)
(***************************************************************************)
\* C1 as stated: after k accepted edits, k undo steps give the pre-edit grid,
\* values and origin tags, and k redo steps after them give the post-edit
\* grid, for every k.
C1_RoundTripForEveryK ==
    /\ (probe.phase = "undo" /\ probe.done = probe.k) => board = probe.pre
    /\ (probe.phase = "redo" /\ probe.done = probe.k) => board = probe.post

\* C1: after k accepted edits with k <= max_history, k undo steps give the
\* pre-edit value of every cell and the pre-edit origin tag of every cell
\* that was empty or tagged before the edits; for every k, k redo steps after
\* the k undo steps give the post-edit grid, values and origin tags.
C1_RoundTripWithinHistory ==
    /\ (probe.phase = "undo" /\ probe.done = probe.k /\ probe.k <= history.max_history) =>
         \A r \in Idx, c \in Idx :
            /\ board.cells[r][c] = probe.pre.cells[r][c]
            /\ (is_none(probe.pre.cells[r][c]) \/ is_some(probe.pre.cell_types[r][c])) =>
                  board.cell_types[r][c] = probe.pre.cell_types[r][c]
    /\ (probe.phase = "redo" /\ probe.done = probe.k) => board = probe.post

\* max_history edits have been undone and redone, and the grid they lead to
\* is not the pre-edit grid.
C1_Witness ==
    /\ probe.phase = "redo"
    /\ probe.done = probe.k
    /\ probe.k = history.max_history
    /\ board # probe.pre

\* C2: across cycle_cell, apply_move and undo_move, whatever cell and Move
\* they are called with, every cell that was tagged Given before the call
\* holds the same value and the Given tag after it.
C2_GivenCellsImmutable ==
    last.op \in {"cycle_cell", "apply_move", "undo_move"} =>
        \A r \in Idx, c \in Idx :
            is_given_cell(last.pre.board, r, c) =>
                /\ is_given_cell(board, r, c)
                /\ board.cells[r][c] = last.pre.board.cells[r][c]

\* apply_move has been called with a Move that names a Given cell and carries
\* a value other than the one the cell holds.
C2_Witness ==
    /\ last.op = "apply_move"
    /\ is_given_cell(last.pre.board, last.row, last.col)
    /\ last.arg[1].new_value # last.pre.board.cells[last.row][last.col]
    /\ last.arg[1].old_value # last.pre.board.cells[last.row][last.col]

\* C3: immediately after add_move(m) returns, can_redo() is false, peek_undo()
\* is m (capacity >= 1), and every entry that was at or after the cursor before
\* the call is gone from the log.
C3_AddMoveDiscardsRedoBranch ==
    last.op = "add_move" =>
        /\ ~can_redo(history)
        /\ history.max_history >= 1 => peek_undo(history) = last.arg
        /\ LET pre  == last.pre.history
               kept == Append(SubSeq(pre.moves, 1, pre.undo_index), last.arg[1])
               drop == IF Len(kept) > pre.max_history
                       THEN Len(kept) - pre.max_history ELSE 0
           IN  history.moves = SubSeq(kept, drop + 1, Len(kept))

\* add_move ran on a log with a redo branch (the cursor was not at the end).
C3_Witness ==
    /\ last.op = "add_move"
    /\ can_redo(last.pre.history)
    /\ last.pre.history.undo_index > 0
    /\ ~can_redo(history)

\* C4: after any sequence of add_move, mark_undone, mark_redone and clear,
\* 0 <= undo_index <= moves.len() <= max_history, and position_info() is
\* (undo_index, moves.len()).
C4_HistoryWithinBounds ==
    /\ 0 <= history.undo_index
    /\ history.undo_index <= Len(history.moves)
    /\ Len(history.moves) <= history.max_history
    /\ position_info(history) = <<history.undo_index, Len(history.moves)>>

\* The log is full, its oldest entry (timestamp 0) has been evicted, and the
\* cursor has been moved back into the log.
C4_Witness ==
    /\ last.op = "mark_undone"
    /\ Len(history.moves) = history.max_history
    /\ history.moves[1].timestamp > 0
    /\ history.undo_index < Len(history.moves)

\* C5: add_move on a log that holds max_history entries with the cursor at the
\* end evicts exactly the oldest entry: the log then holds the previous entries
\* 2..max_history in their order, then the new move, and the cursor is
\* max_history.
C5_AddMoveEvictsOldest ==
    (/\ last.op = "add_move"
     /\ Len(last.pre.history.moves) = last.pre.history.max_history
     /\ last.pre.history.undo_index = Len(last.pre.history.moves))
    => /\ history.moves = Append(Tail(last.pre.history.moves), last.arg[1])
       /\ history.undo_index = history.max_history
       /\ history.max_history = last.pre.history.max_history

\* add_move has just run on a full log with the cursor at its end.
C5_Witness ==
    /\ last.op = "add_move"
    /\ Len(last.pre.history.moves) = last.pre.history.max_history
    /\ last.pre.history.undo_index = Len(last.pre.history.moves)
    /\ last.pre.history.max_history > 0

\* C6: peek_undo and peek_redo leave the history as it was; peek_undo returns the
\* entry at cursor-1 when the cursor is > 0 and None otherwise; peek_redo the
\* entry at the cursor when the cursor is < length and None otherwise;
\* mark_undone moves the cursor by -1 when can_undo() holds, mark_redone by +1
\* when can_redo() holds, otherwise they change nothing; the moves stay as they
\* were.
C6_PeekAndMarkEffects ==
    LET pre == last.pre.history
    IN  /\ last.op = "peek_undo" =>
              /\ history = pre
              /\ last.ret = IF pre.undo_index > 0
                            THEN Some(pre.moves[pre.undo_index]) ELSE None
        /\ last.op = "peek_redo" =>
              /\ history = pre
              /\ last.ret = IF pre.undo_index < Len(pre.moves)
                            THEN Some(pre.moves[pre.undo_index + 1]) ELSE None
        /\ last.op = "mark_undone" =>
              /\ history.moves = pre.moves
              /\ history.max_history = pre.max_history
              /\ history.undo_index = IF pre.undo_index > 0
                                      THEN pre.undo_index - 1 ELSE pre.undo_index
        /\ last.op = "mark_redone" =>
              /\ history.moves = pre.moves
              /\ history.max_history = pre.max_history
              /\ history.undo_index = IF pre.undo_index < Len(pre.moves)
                                      THEN pre.undo_index + 1 ELSE pre.undo_index

\* peek_undo returned an entry of a log whose cursor is in its middle.
C6_Witness ==
    /\ last.op = "peek_undo"
    /\ is_some(last.ret)
    /\ can_redo(history)
    /\ history.undo_index >= 1

\* C7: on a cell that is not Given, a value v < N comes back after exactly N
\* successive cycle_cell calls with symbol count N and not before; a filled
\* cell is never made empty by a call; an empty cell is set to 0 by the
\* first call.
C7_CycleReturnsAfterN ==
    ~is_given_cell(board, probe.row, probe.col) =>
        LET trail == probe.trail
            n     == probe.n
        IN  /\ \A i \in 1 .. Len(trail) :
                 (is_some(trail[i]) /\ trail[i][1] < n) =>
                    /\ i + n <= Len(trail) => trail[i + n] = trail[i]
                    /\ \A j \in 1 .. (n - 1) :
                         i + j <= Len(trail) => trail[i + j] # trail[i]
            /\ \A i \in 1 .. (Len(trail) - 1) :
                 /\ is_some(trail[i]) => is_some(trail[i + 1])
                 /\ is_none(trail[i]) => trail[i + 1] = Some(0)

\* With N = 3 an empty cell has gone through 0, 1, 2 and is at 0 again.
C7_Witness ==
    /\ probe.n = 3
    /\ probe.trail = <<None, Some(0), Some(1), Some(2), Some(0)>>
    /\ last.op = "cycle_cell"
    /\ is_some(last.ret)

\* C8: cycle_cell on a cell that is not Given sets an empty cell to 0 and a
\* cell holding v to (v+1) mod N; it returns a Move exactly when the value
\* changed, the Move carries the coordinates and the values before and after,
\* the cell's origin becomes Player and no other cell changes; when the value
\* did not change (N = 1 on a cell holding 0) it returns no Move and the board
\* is as before.
C8_CycleCellReturnsMoveIffChanged ==
    (last.op = "cycle_cell" /\ ~is_given_cell(last.pre.board, last.row, last.col)) =>
        LET old   == last.pre.board.cells[last.row][last.col]
            new   == board.cells[last.row][last.col]
            other == { p \in Idx \X Idx : p # <<last.row, last.col>> }
        IN  /\ new = IF old = None THEN Some(0) ELSE Some((old[1] + 1) % last.n)
            /\ is_some(last.ret) <=> new # old
            /\ is_some(last.ret) =>
                 /\ last.ret[1].row = last.row
                 /\ last.ret[1].col = last.col
                 /\ last.ret[1].old_value = old
                 /\ last.ret[1].new_value = new
                 /\ board.cell_types[last.row][last.col] = Some("Player")
            /\ \A p \in other :
                 /\ board.cells[p[1]][p[2]] = last.pre.board.cells[p[1]][p[2]]
                 /\ board.cell_types[p[1]][p[2]] = last.pre.board.cell_types[p[1]][p[2]]
            /\ is_none(last.ret) => board = last.pre.board
            /\ (last.n = 1 /\ old = Some(0)) => is_none(last.ret)

\* cycle_cell with N = 1 has been called on a cell holding 0 and returned no
\* Move, after an earlier call that filled the cell.
C8_Witness ==
    /\ last.op = "cycle_cell"
    /\ ~is_given_cell(last.pre.board, last.row, last.col)
    /\ last.n = 1
    /\ last.pre.board.cells[last.row][last.col] = Some(0)
    /\ last.pre.board.cell_types[last.row][last.col] = Some("Player")
    /\ is_none(last.ret)

\* C9: a click on a Given cell is refused: the board, the history and the
\* session's move count are what they were before the click.
C9_GivenClickRefused ==
    (last.op = "cycle" /\ is_given_cell(last.pre.board, last.row, last.col)) =>
        /\ is_none(last.ret)
        /\ board = last.pre.board
        /\ history = last.pre.history
        /\ session = last.pre.session

\* A Given cell has been clicked while the history held an undone move.
C9_Witness ==
    /\ last.op = "cycle"
    /\ is_given_cell(last.pre.board, last.row, last.col)
    /\ can_redo(last.pre.history)
    /\ last.pre.session.move_count > 0

\* C10: is_valid_placement(row, col, value) is true exactly when no cell
\* other than (row, col) in the same row, column or box holds value; the
\* value the cell (row, col) itself holds does not count.
C10_ValidPlacementIffNoPeerHolds ==
    last.op = "is_valid_placement" =>
        LET same_box(p) == /\ p[1] \div 3 = last.row \div 3
                           /\ p[2] \div 3 = last.col \div 3
            peers == { p \in Idx \X Idx :
                         /\ p # <<last.row, last.col>>
                         /\ (p[1] = last.row \/ p[2] = last.col \/ same_box(p)) }
        IN  last.ret = Some(TRUE) <=>
                \A p \in peers : board.cells[p[1]][p[2]] # Some(last.n)

\* The check of a filled cell with the value it holds has succeeded, while a
\* cell of another row, column and box holds the same value.
C10_Witness ==
    /\ last.op = "is_valid_placement"
    /\ board.cells[last.row][last.col] = Some(last.n)
    /\ last.ret = Some(TRUE)
    /\ \E p \in Idx \X Idx :
          /\ p[1] # last.row
          /\ p[2] # last.col
          /\ (p[1] \div 3 # last.row \div 3 \/ p[2] \div 3 # last.col \div 3)
          /\ board.cells[p[1]][p[2]] = Some(last.n)

\* C11: get_conflicts() lists exactly the filled positions that share a row,
\* a column or a box with another cell holding the same value, each once; it
\* is empty exactly when any two filled cells that share a row, a column or a
\* box hold different values.
C11_ConflictsAreTheDuplicatedCells ==
    last.op = "get_conflicts" =>
        LET share(p, q) == /\ p # q
                           /\ \/ p[1] = q[1]
                              \/ p[2] = q[2]
                              \/ (p[1] \div 3 = q[1] \div 3 /\ p[2] \div 3 = q[2] \div 3)
            value(p)    == board.cells[p[1]][p[2]]
            duplicated  == { p \in Idx \X Idx :
                               /\ value(p) # <<>>
                               /\ \E q \in Idx \X Idx : share(p, q) /\ value(q) = value(p) }
            listed      == last.ret[1]
        IN  /\ { listed[i] : i \in 1 .. Len(listed) } = duplicated
            /\ Len(listed) = Cardinality(duplicated)
            /\ listed = <<>> <=>
                 \A p \in Idx \X Idx, q \in Idx \X Idx :
                    (share(p, q) /\ value(p) # <<>> /\ value(q) # <<>>) => value(p) # value(q)

\* get_conflicts has listed the two members of a pair that shares only a box,
\* on a grid where another filled cell has no duplicate.
C11_Witness ==
    /\ last.op = "get_conflicts"
    /\ last.ret[1] = << <<0, 0>>, <<1, 1>> >>
    /\ is_some(board.cells[4][4])

\* C12: is_complete() is true exactly when every cell is filled and no two
\* cells that share a row, a column or a box hold the same value;
\* compute_game_state() is Won exactly when is_complete() is true and Playing
\* otherwise.
C12_CompleteIffFilledAndConflictFree ==
    LET share(p, q) == /\ p # q
                       /\ \/ p[1] = q[1]
                          \/ p[2] = q[2]
                          \/ (p[1] \div 3 = q[1] \div 3 /\ p[2] \div 3 = q[2] \div 3)
        value(p)    == board.cells[p[1]][p[2]]
        solved      == /\ \A p \in Idx \X Idx : value(p) # <<>>
                       /\ \A p \in Idx \X Idx, q \in Idx \X Idx :
                            share(p, q) => value(p) # value(q)
    IN  /\ last.op = "is_complete" => last.ret = Some(solved)
        /\ last.op = "compute_game_state" =>
              last.ret = Some(IF solved THEN "Won" ELSE "Playing")

\* compute_game_state has answered Won on a grid a cell of which apply_move wrote.
C12_Witness ==
    /\ last.op = "compute_game_state"
    /\ last.ret = Some("Won")
    /\ \E p \in PlaceCells : board.cell_types[p[1]][p[2]] = Some("Player")

\* C13: validate_unique_solution returns true exactly when exactly one
\* completion of the grid (a full assignment that keeps every filled cell)
\* satisfies all row, column and box constraints; grids whose filled cells
\* conflict and completely filled grids included.  Checked on the grids with
\* at most four empty cells.
C13_ValidateIffExactlyOneCompletion ==
    LET given       == probe.given
        share(p, q) == /\ p # q
                       /\ \/ p[1] = q[1]
                          \/ p[2] = q[2]
                          \/ (p[1] \div 3 = q[1] \div 3 /\ p[2] \div 3 = q[2] \div 3)
        holes       == { p \in Idx \X Idx : given.cells[p[1]][p[2]] = <<>> }
        peers       == [h \in holes |-> { q \in Idx \X Idx : share(h, q) }]
        consistent  == \A p \in (Idx \X Idx) \ holes, q \in (Idx \X Idx) \ holes :
                          share(p, q) => given.cells[p[1]][p[2]] # given.cells[q[1]][q[2]]
        at(f, q)    == IF q \in holes THEN f[q] ELSE given.cells[q[1]][q[2]][1]
        completions == IF consistent
                       THEN { f \in [holes -> Idx] :
                                \A h \in holes : \A q \in peers[h] : at(f, q) # f[h] }
                       ELSE {}
    IN  (last.op = "validate_unique_solution" /\ Cardinality(holes) <= 4) =>
            (last.ret = Some(TRUE) <=> Cardinality(completions) = 1)

\* C14 (as stated): on a grid whose filled cells are conflict-free, solve_with_counter
\* started with counter 0 and cap >= 1 ends with the counter equal to the
\* smaller of cap and the number of valid completions of the grid; the
\* counter never exceeds cap, and no value is placed once the counter has
\* reached cap.  The number of completions is counted on the grids with at
\* most four empty cells.
C14_CounterIsMinAndStopsAtCap ==
    LET given       == probe.given
        share(p, q) == /\ p # q
                       /\ \/ p[1] = q[1]
                          \/ p[2] = q[2]
                          \/ (p[1] \div 3 = q[1] \div 3 /\ p[2] \div 3 = q[2] \div 3)
        holes       == { p \in Idx \X Idx : given.cells[p[1]][p[2]] = <<>> }
        peers       == [h \in holes |-> { q \in Idx \X Idx : share(h, q) }]
        consistent  == \A p \in (Idx \X Idx) \ holes, q \in (Idx \X Idx) \ holes :
                          share(p, q) => given.cells[p[1]][p[2]] # given.cells[q[1]][q[2]]
        at(f, q)    == IF q \in holes THEN f[q] ELSE given.cells[q[1]][q[2]][1]
        completions == { f \in [holes -> Idx] :
                           \A h \in holes : \A q \in peers[h] : at(f, q) # f[h] }
        n           == Cardinality(completions)
    IN  (probe.scenario = "search" /\ probe.call = "solve_with_counter" /\ consistent) =>
            /\ probe.m.count <= probe.m.cap
            /\ probe.m.capped = 0
            /\ (probe.m.pc = "done" /\ Cardinality(holes) <= 4) =>
                  probe.m.count = IF n < probe.m.cap THEN n ELSE probe.m.cap

\* C14 (amended): on a grid whose filled cells are conflict-free,
\* solve_with_counter started with counter 0 and cap >= 1 ends with the
\* counter equal to the smaller of cap and the number of valid completions;
\* the counter never exceeds cap, and an invocation entered once the counter
\* has reached cap returns false at once and places nothing.  (The open
\* invocations still place their remaining valid values.)
C14_CounterIsMinAndEntriesStopAtCap ==
    [][LET given       == probe'.given
           share(p, q) == /\ p # q
                          /\ \/ p[1] = q[1]
                             \/ p[2] = q[2]
                             \/ (p[1] \div 3 = q[1] \div 3 /\ p[2] \div 3 = q[2] \div 3)
           holes       == { p \in Idx \X Idx : given.cells[p[1]][p[2]] = <<>> }
           peers       == [h \in holes |-> { q \in Idx \X Idx : share(h, q) }]
           consistent  == \A p \in (Idx \X Idx) \ holes, q \in (Idx \X Idx) \ holes :
                             share(p, q) =>
                                 given.cells[p[1]][p[2]] # given.cells[q[1]][q[2]]
           at(f, q)    == IF q \in holes THEN f[q] ELSE given.cells[q[1]][q[2]][1]
           completions == { f \in [holes -> Idx] :
                              \A h \in holes : \A q \in peers[h] : at(f, q) # f[h] }
           n           == Cardinality(completions)
       IN  (probe'.scenario = "search" /\ probe'.call = "solve_with_counter"
                /\ consistent) =>
               /\ probe'.m.count <= probe'.m.cap
               /\ (probe'.m.pc = "done" /\ Cardinality(holes) <= 4) =>
                     probe'.m.count = IF n < probe'.m.cap THEN n ELSE probe'.m.cap
               /\ (probe.stage = "running" /\ probe'.stage = "running"
                        /\ probe.call = "solve_with_counter"
                        /\ probe.m.pc = "call" /\ probe.m.count >= probe.m.cap) =>
                     probe'.m = [probe.m EXCEPT !.pc = "ret", !.ret = FALSE]]_vars

\* solve_with_counter has returned from the grid with the four emptied cells
\* of a rectangle with cap 1: the counter is 1 and a value was placed after
\* the counter had reached the cap.
C14_Witness ==
    /\ last.op = "solve_with_counter"
    /\ probe.kind = "rectangle"
    /\ probe.m.cap = 1
    /\ probe.m.count = 1
    /\ probe.m.capped > 0

\* C15: validate_unique_solution returns false on the empty grid and on the
\* grid whose only clues are (0,0)=0, (1,1)=1, (2,2)=2, and true on the grid
\* fill_board has just built from the empty grid.
C15_ValidateOnKnownGrids ==
    last.op = "validate_unique_solution" =>
        /\ board = BoardState_new => last.ret = Some(FALSE)
        /\ board = three_clues => last.ret = Some(FALSE)
        /\ probe.kind = "complete" => last.ret = Some(TRUE)

\* validate_unique_solution has answered for the grid with the three clues.
C15_Witness ==
    /\ last.op = "validate_unique_solution"
    /\ board = three_clues
    /\ probe.m.count = UNIQUENESS_CAP

\* C16: validate_unique_solution leaves the board it is given as it was;
\* solve_with_counter returns with its working grid equal to the grid it was
\* given, also when it stopped at the cap; fill_board that returns false
\* leaves the grid equal to its input, and fill_board that returns true has
\* every cell that was filled as it was.
C16_SearchesRestoreTheGrid ==
    probe.scenario = "search" =>
        /\ last.op = "validate_unique_solution" => board = probe.given
        /\ probe.call \in {"validate_unique_solution", "solve_with_counter"} =>
              /\ board = probe.given
              /\ probe.m.pc = "done" => probe.m.board = probe.given
        /\ (probe.call = "fill_board" /\ probe.m.pc = "done") =>
              /\ board.cell_types = probe.given.cell_types
              /\ ~probe.m.ret => board = probe.given
              /\ probe.m.ret =>
                    \A r \in Idx, c \in Idx :
                        is_some(probe.given.cells[r][c]) =>
                            board.cells[r][c] = probe.given.cells[r][c]

\* solve_with_counter has returned from a grid with empty cells after its
\* counter reached the cap and values were still placed.
C16_Witness ==
    /\ last.op = "solve_with_counter"
    /\ probe.m.count = probe.m.cap
    /\ probe.m.capped > 0
    /\ \E r \in Idx, c \in Idx : is_none(probe.given.cells[r][c])

\* C17: fill_board called on the empty grid terminates, returns true and
\* leaves a grid that is_complete(), for every ordering of the candidates.
\* Termination: the tried candidate indices of the open invocations, read
\* from the outermost invocation inwards and closed by GRID_SIZE + 1 while an
\* invocation is returning, grow lexicographically with every step of the
\* search, and they are drawn from a finite set.
C17_FillBoardSucceedsOnEmptyGrid ==
    [][LET rank(m) == [k \in 1 .. Len(m.frames) |-> m.frames[k].i]
                          \o (IF m.pc = "call" THEN <<>> ELSE <<GRID_SIZE + 1>>)
           lex_less(a, b) ==
               \E k \in 1 .. Len(b) :
                   /\ k <= Len(a) + 1
                   /\ \A j \in 1 .. k - 1 : a[j] = b[j]
                   /\ k <= Len(a) => a[k] < b[k]
       IN  (probe'.call = "fill_board" /\ probe'.given = BoardState_new) =>
               /\ (probe.stage = "running" /\ probe'.stage = "running"
                        /\ probe.call = "fill_board") =>
                     \/ probe'.m.pc = "done"
                     \/ lex_less(rank(probe.m), rank(probe'.m))
               /\ (probe'.stage = "running" /\ probe'.m.pc = "done") =>
                     (probe'.m.ret /\ is_complete(board'))
               /\ (probe.stage = "running" /\ probe'.stage # "running") =>
                     /\ last'.op = "fill_board"
                     /\ last'.ret = Some(TRUE)
                     /\ is_complete(board')]_vars

\* fill_board has returned true from the empty grid with the candidates of
\* each row tried from another start, and (1,0) does not hold the candidate
\* tried first there: the search came back to it or found it taken.
C17_Witness ==
    /\ probe.stage = "filled"
    /\ last.op = "fill_board"
    /\ last.ret = Some(TRUE)
    /\ is_complete(board)
    /\ probe.given = BoardState_new
    /\ probe.m.policy = "row"
    /\ board.cells[0][0] = Some(0)
    /\ board.cells[1][0] # Some(1)

\* C18: whenever generate_puzzle_with_settings returns a Solution, the number
\* of filled cells of the board lies within settings.givens_range, both ends
\* included, on the standard and on the Expert path.
C18_GivensWithinRange ==
    LET filled == Cardinality({p \in Idx \X Idx : is_some(board.cells[p[1]][p[2]])})
    IN  (probe.scenario = "generate" /\ probe.stage = "returned" /\ is_some(probe.ret)) =>
            /\ filled >= probe.settings.givens_range[1]
            /\ filled <= probe.settings.givens_range[2]

\* The call has returned a Solution on the standard path for a range of more
\* than one value, with a target strictly inside the range.
C18_Witness ==
    /\ probe.scenario = "generate"
    /\ probe.stage = "returned"
    /\ is_some(probe.ret)
    /\ probe.phase = "standard"
    /\ probe.settings.givens_range[1] < probe.target
    /\ probe.target < probe.settings.givens_range[2]
    /\ Cardinality({p \in Idx \X Idx : is_none(board.cells[p[1]][p[2]])})
          = GRID_SIZE * GRID_SIZE - probe.target

\* C19: whenever generate_puzzle_with_settings returns a Solution for
\* settings with require_unique_solution, validate_unique_solution called on
\* the board it leaves returns true: the search with the cap 2, run on the
\* board, ends with solution_count = 1.
C19_UniqueWhenRequired ==
    LET RECURSIVE run(_)
        run(m) == IF m.pc = "done" THEN m ELSE run(search_step(m))
    IN  (/\ probe.scenario = "generate"
         /\ probe.stage = "returned"
         /\ is_some(probe.ret)
         /\ probe.settings.require_unique_solution) =>
            run(search_start("solve_with_counter", board, UNIQUENESS_CAP, "asc")).count = 1

\* The call has returned a Solution on the standard path with the uniqueness
\* requirement after an attempt that failed the uniqueness check, and cells
\* of the board are empty.
C19_Witness ==
    /\ probe.scenario = "generate"
    /\ probe.stage = "returned"
    /\ is_some(probe.ret)
    /\ probe.settings.require_unique_solution
    /\ probe.phase = "standard"
    /\ probe.attempt >= 1
    /\ \E p \in Idx \X Idx : is_none(board.cells[p[1]][p[2]])

\* C20: whenever generate_puzzle_with_settings returns a Solution for a
\* givens_range with max < 81, the Solution is completely filled and
\* conflict-free, every filled cell of the board is tagged Given and holds
\* the Solution's value, and every empty cell has no origin tag.
C20_SolutionMatchesTaggedBoard ==
    LET sol         == probe.ret[1]
        share(p, q) == /\ p # q
                       /\ \/ p[1] = q[1]
                          \/ p[2] = q[2]
                          \/ (p[1] \div 3 = q[1] \div 3 /\ p[2] \div 3 = q[2] \div 3)
    IN  (/\ probe.scenario = "generate"
         /\ probe.stage = "returned"
         /\ is_some(probe.ret)
         /\ probe.settings.givens_range[2] < GRID_SIZE * GRID_SIZE) =>
            /\ \A p \in Idx \X Idx : sol.cells[p[1]][p[2]] \in Idx
            /\ \A p \in Idx \X Idx, q \in Idx \X Idx :
                  share(p, q) => sol.cells[p[1]][p[2]] # sol.cells[q[1]][q[2]]
            /\ \A p \in Idx \X Idx :
                  IF is_some(board.cells[p[1]][p[2]])
                  THEN /\ board.cell_types[p[1]][p[2]] = Some("Given")
                       /\ board.cells[p[1]][p[2]] = Some(sol.cells[p[1]][p[2]])
                  ELSE board.cell_types[p[1]][p[2]] = None

\* generate_expert_unique_puzzle has returned true after it gave a candidate
\* its value back: more candidates were visited than removals made.
C20_Witness ==
    /\ probe.scenario = "generate"
    /\ probe.stage = "returned"
    /\ is_some(probe.ret)
    /\ probe.settings.givens_range[2] < GRID_SIZE * GRID_SIZE
    /\ probe.phase = "expert"
    /\ probe.k > probe.removals_made
    /\ probe.removals_made = GRID_SIZE * GRID_SIZE - probe.target

\* C21: generate_puzzle_with_settings makes at most 15 attempts when
\* require_unique_solution is true and at most 3 otherwise; each attempt
\* starts from a cleared grid; it returns None exactly when every attempt of
\* the budget was rejected, and it returns a Solution at the first accepted
\* attempt, without starting another.
C21_AttemptBudget ==
    [][LET max_attempts == IF probe'.settings.require_unique_solution THEN 15 ELSE 3
       IN  probe'.scenario = "generate" =>
               /\ probe'.attempt <= max_attempts
               /\ (probe.stage = "attempt" /\ probe'.stage = "running") =>
                     /\ probe.attempt < max_attempts
                     /\ probe'.attempt = probe.attempt
                     /\ board' = BoardState_new
               /\ (probe'.stage = "attempt" /\ probe.stage \notin {"idle", "attempt"}) =>
                     probe'.attempt = probe.attempt + 1
               /\ (probe.stage # "returned" /\ probe'.stage = "returned") =>
                     IF probe'.ret = None
                     THEN probe.stage = "attempt" /\ probe.attempt = max_attempts
                     ELSE /\ probe.stage \in {"running", "expert"}
                          /\ probe'.attempt = probe.attempt
                          /\ probe.attempt < max_attempts]_vars

\* The call has returned None after 15 rejected attempts.
C21_Witness ==
    /\ probe.scenario = "generate"
    /\ probe.stage = "returned"
    /\ probe.ret = None
    /\ probe.attempt = 15
    /\ last.op = "generate_puzzle_with_settings"

\* C22: on the standard path (the settings are not Expert with uniqueness)
\* with a target t < 81 drawn from givens_range, exactly t cells keep their
\* value and are tagged Given, the other 81 - t cells are emptied and have no
\* origin tag; when require_unique_solution is false the attempt is accepted
\* at once, so the call returns a Solution on the first attempt whose fill
\* succeeds.
C22_StandardPathKeepsTarget ==
    [][(/\ probe'.scenario = "generate"
        /\ probe.phase = "fill"
        /\ probe'.phase = "standard") =>
           /\ ~(probe'.settings.difficulty = "Expert"
                    /\ probe'.settings.require_unique_solution)
           /\ probe'.target >= probe'.settings.givens_range[1]
           /\ probe'.target <= probe'.settings.givens_range[2]
           /\ probe'.target < GRID_SIZE * GRID_SIZE =>
                 /\ Cardinality({p \in Idx \X Idx : is_some(board'.cells[p[1]][p[2]])})
                       = probe'.target
                 /\ \A p \in Idx \X Idx :
                       IF is_some(board'.cells[p[1]][p[2]])
                       THEN /\ board'.cells[p[1]][p[2]] = board.cells[p[1]][p[2]]
                            /\ board'.cell_types[p[1]][p[2]] = Some("Given")
                       ELSE board'.cell_types[p[1]][p[2]] = None
           /\ ~probe'.settings.require_unique_solution =>
                 /\ probe'.stage = "returned"
                 /\ is_some(probe'.ret)
                 /\ probe'.attempt = probe.attempt
                 /\ probe.m.ret]_vars

\* The call has returned a Solution for Expert settings without the
\* uniqueness requirement on its first attempt, with the smallest target.
C22_Witness ==
    /\ probe.scenario = "generate"
    /\ probe.stage = "returned"
    /\ is_some(probe.ret)
    /\ probe.phase = "standard"
    /\ probe.settings.difficulty = "Expert"
    /\ ~probe.settings.require_unique_solution
    /\ probe.attempt = 0
    /\ probe.target = GRID_SIZE * GRID_SIZE - MaxCleared
    /\ Cardinality({p \in Idx \X Idx : is_none(board.cells[p[1]][p[2]])}) = MaxCleared

\* C23: when generate_puzzle_with_settings returns None, the board is as it
\* was when the call was made.
C23_FailureLeavesBoardUntouched ==
    (probe.scenario = "generate" /\ probe.stage = "returned" /\ probe.ret = None) =>
        board = probe.given

\* C24: two calls of generate_puzzle_with_settings with the same settings
\* and the same Some(seed), each on a new board, have the same outcome: the
\* same values and origin tags on the board and the same result.
C24_SameSeedSameOutcome ==
    (/\ probe.scenario = "generate"
     /\ probe.stage = "returned"
     /\ is_some(probe.first)
     /\ is_some(probe.settings.seed)) =>
        /\ board = probe.first[1].board
        /\ probe.ret = probe.first[1].ret

\* C25: get_next_hint returns None iff no cell of the grid is both empty and
\* not Given; otherwise it returns (row, col, value) where the cell
\* (row, col) is empty and not Given and value is solution.cells[row][col].
\* (It takes the grid by shared reference: the grid it was passed is the one
\* in last.pre.)  Checked on the calls hint_button_system makes.
C25_HintNamesAnOpenCellAndItsSolution ==
    LET grid == last.pre.board
        open == { p \in Idx \X Idx : /\ grid.cells[p[1]][p[2]] = <<>>
                                     /\ grid.cell_types[p[1]][p[2]] # <<"Given">> }
    IN  (last.op = "hint" /\ last.arg = Some(TRUE)) =>
            /\ last.ret = None <=> open = {}
            /\ last.ret # None =>
                  /\ <<last.ret[1][1], last.ret[1][2]>> \in open
                  /\ last.ret[1][3] = solution.cells[last.ret[1][1]][last.ret[1][2]]

\* get_next_hint has returned a cell that was not the first empty cell of the
\* grid in row-major order.
C25_Witness ==
    /\ last.op = "hint"
    /\ last.arg = Some(TRUE)
    /\ last.ret # None
    /\ \E p \in Idx \X Idx :
          /\ last.pre.board.cells[p[1]][p[2]] = None
          /\ \/ p[1] < last.ret[1][1]
             \/ (p[1] = last.ret[1][1] /\ p[2] < last.ret[1][2])

\* C27: a press of the Hint button when no cell is both empty and not Given
\* (get_next_hint has no hint to give) leaves everything as it was: the grid
\* is unchanged and hints_remaining is not decremented.
C27_UnservedHintChangesNothing ==
    LET grid == last.pre.board
        open == { p \in Idx \X Idx : /\ grid.cells[p[1]][p[2]] = <<>>
                                     /\ grid.cell_types[p[1]][p[2]] # <<"Given">> }
    IN  (last.op = "hint" /\ open = {}) =>
            /\ board = last.pre.board
            /\ hint_system = last.pre.hint_system

\* C26: in unlimited mode use_hint returns true and leaves hints_remaining
\* unchanged; otherwise it returns true and decrements hints_remaining by 1
\* iff hints_remaining > 0, and returns false leaving it at 0 otherwise;
\* can_use_hint is the result the next use_hint would return;
\* 0 <= hints_remaining <= max_hints always, and at most max_hints calls of
\* use_hint succeed outside unlimited mode between two resets.
C26_HintBudget ==
    LET before == last.pre.hint_system
        unlimited == last.pre.debug_mode.unlimited_hints
    IN  probe.scenario = "hints" =>
            /\ hint_system.hints_remaining >= 0
            /\ hint_system.hints_remaining <= hint_system.max_hints
            /\ probe.served <= hint_system.max_hints
            /\ last.op = "use_hint" =>
                  /\ last.ret = Some(unlimited \/ before.hints_remaining > 0)
                  /\ hint_system.max_hints = before.max_hints
                  /\ hint_system.hints_remaining =
                        IF ~unlimited /\ before.hints_remaining > 0
                        THEN before.hints_remaining - 1
                        ELSE before.hints_remaining
            /\ last.op = "can_use_hint" =>
                  /\ hint_system = before
                  /\ last.ret = Some(debug_mode.unlimited_hints
                                        \/ hint_system.hints_remaining > 0)
            /\ last.op = "hint_reset" =>
                  hint_system = [hints_remaining |-> last.n, max_hints |-> last.n]

\* use_hint has returned false outside unlimited mode after max_hints calls
\* that returned true: hints_remaining is 0 still.
C26_Witness ==
    /\ probe.scenario = "hints"
    /\ last.op = "use_hint"
    /\ last.ret = Some(FALSE)
    /\ ~last.pre.debug_mode.unlimited_hints
    /\ hint_system.hints_remaining = 0
    /\ hint_system.max_hints > 0
    /\ probe.served = hint_system.max_hints

\* C29: current_elapsed() is the total time the session has spent not paused
\* since it was created or reset.
C29_ElapsedIsTimeNotPaused ==
    (probe.scenario = "session" /\ last.op = "current_elapsed") =>
        last.ret = Some(probe.active)

\* C30: is_paused is true iff pause_start is present; pause on a paused
\* session and resume on a running session change nothing; increment_move
\* adds exactly 1 to move_count and changes nothing else; reset yields
\* move_count 0 and not paused.
C30_SessionFlags ==
    LET before == last.pre.session
    IN  probe.scenario = "session" =>
            /\ session.is_paused <=> session.pause_start # None
            /\ (last.op = "pause" /\ before.is_paused) => session = before
            /\ (last.op = "pause" /\ ~before.is_paused) =>
                  session = [before EXCEPT !.is_paused = TRUE, !.pause_start = Some(clock)]
            /\ (last.op = "resume" /\ ~before.is_paused) => session = before
            /\ (last.op = "resume" /\ before.is_paused) =>
                  session = [before EXCEPT !.is_paused = FALSE, !.pause_start = None]
            /\ last.op = "increment_move" =>
                  session = [before EXCEPT !.move_count = before.move_count + 1]
            /\ last.op = "reset" =>
                  /\ session.move_count = 0
                  /\ ~session.is_paused
                  /\ session.pause_start = None

\* pause has been called on a session that was paused at an earlier reading
\* of the clock and had moves counted.
C30_Witness ==
    /\ probe.scenario = "session"
    /\ last.op = "pause"
    /\ last.pre.session.is_paused
    /\ session.pause_start # None
    /\ session.pause_start[1] < clock
    /\ session.move_count > 0

\* C28: every press of Start Game leaves the move history empty (can_undo
\* and can_redo false, cursor 0), the session reset (move_count 0, not
\* paused) and hints_remaining equal to the max_hints of the selected
\* preset, whatever they were before and whether generation succeeded or
\* fell back.
C28_StartGameResetsHistorySessionHints ==
    last.op = "start_game" =>
        /\ history.moves = <<>>
        /\ history.undo_index = 0
        /\ ~can_undo(history)
        /\ ~can_redo(history)
        /\ session.move_count = 0
        /\ ~session.is_paused
        /\ hint_system.hints_remaining = last.n
        /\ hint_system.max_hints = last.n

\* Start Game has been pressed and generation fell back, with a move undone
\* in the history, moves counted and a hint used before the press.
C28_Witness ==
    /\ last.op = "start_game"
    /\ last.ret = Some(FALSE)
    /\ can_redo(last.pre.history)
    /\ last.pre.session.move_count > 0
    /\ last.pre.hint_system.hints_remaining < last.pre.hint_system.max_hints


(***************************************************************************)
(* Claims about whole sessions of play.                                    *)
(***************************************************************************)

\* C31: within one puzzle, no command of the controller (cycle, Clear Board,
\* undo, redo, hint) changes the value of a cell that was tagged Given before
\* the command, or removes its Given tag.
C31_CommandsKeepGivenCells ==
    last.op \in {"cycle", "clear", "undo", "redo", "hint"} =>
        \A r \in Idx, c \in Idx :
            is_given_cell(last.pre.board, r, c) =>
                /\ is_given_cell(board, r, c)
                /\ board.cells[r][c] = last.pre.board.cells[r][c]


\* C32: cycle_cell never aborts the process: called on a cell that is not
\* Given, empty or filled, with any symbol count N >= 0, it completes and
\* returns a Move or none.
C32_CycleCellCompletes ==
    (/\ last.op = "cycle_cell"
     /\ ~is_given_cell(last.pre.board, last.row, last.col)) =>
        /\ probe.scenario = "running"
        /\ \/ last.ret = None
           \/ /\ last.ret[1].row = last.row
              /\ last.ret[1].col = last.col
              /\ board.cells[last.row][last.col] = last.ret[1].new_value


(***************************************************************************)
(* The preset buttons of the customization screen.  probe holds the        *)
(* SelectedPreset resource, whether it has changed since the run condition *)
(* of sync_preset_button_highlights was last evaluated, and for every      *)
(* PresetButton its Interaction and its styling (the pair BackgroundColor, *)
(* BorderColor, named after the constants PRESET_<style>_BG/_BORDER).      *)
(* A frame is the pointer input followed by the two systems, in the one    *)
(* order or the other: the schedule does not order them.                   *)
(***************************************************************************)
\* PresetKind::all(), indexed as preset_id is.
PresetKind_all == [i \in 0 .. 3 |->
                     CASE i = 0 -> "CozyKitten"
                       [] i = 1 -> "CuriousCat"
                       [] i = 2 -> "StreetwiseStray"
                       [] i = 3 -> "NightProwler"]

\* touched: the buttons whose Interaction changed since the system last ran.
handle_preset_selection(ui, touched) ==
    LET pressed == {i \in touched : ui.interaction[i] = "Pressed"}
        \* the buttons are visited in the order of the query; the last
        \* Pressed one visited gives the resource its value
        chosen  == IF pressed = {} THEN ui.selected_preset
                   ELSE PresetKind_all[CHOOSE i \in pressed : \A j \in pressed : j <= i]
    IN  [ui EXCEPT
           !.selected_preset = chosen,
           !.changed = @ \/ pressed # {},
           !.style = [i \in DOMAIN ui.style |->
                        IF i \notin touched THEN ui.style[i]
                        ELSE CASE ui.interaction[i] = "Pressed" -> "PRESSED"
                               [] ui.interaction[i] = "Hovered" ->
                                     IF PresetKind_all[i] # chosen
                                     THEN "HOVER" ELSE ui.style[i]
                               [] OTHER -> ui.style[i]]]

sync_preset_button_highlights(ui) ==
    IF ui.changed
    THEN [ui EXCEPT
            !.changed = FALSE,
            !.synced = TRUE,
            !.style = [i \in DOMAIN ui.style |->
                         IF PresetKind_all[i] = ui.selected_preset
                         THEN "SELECTED" ELSE "NORMAL"]]
    ELSE ui

\* The customization screen once it is set up and the systems have run on
\* it: the buttons as setup_customization_screen spawns them.
InitPresets ==
    /\ NewGame([board |-> BoardState_new, solution |-> Solution_new])
    /\ probe = [scenario        |-> "presets",
                selected_preset |-> "CozyKitten",
                changed         |-> FALSE,
                synced          |-> FALSE,
                interaction     |-> [i \in DOMAIN PresetKind_all |-> "None"],
                style           |-> [i \in DOMAIN PresetKind_all |-> "NORMAL"]]

\* One frame: the pointer gives button i the interaction to (no change when
\* the button has it already), then the two systems run.
PresetFrame(i, to, order) ==
    /\ steps < MaxSteps
    /\ steps' = steps + 1
    /\ LET touched == IF probe.interaction[i] = to THEN {} ELSE {i}
           input   == [probe EXCEPT !.interaction[i] = to]
       IN  probe' = IF order = "handle_first"
                    THEN sync_preset_button_highlights(
                             handle_preset_selection(input, touched))
                    ELSE handle_preset_selection(
                             sync_preset_button_highlights(input), touched)
    /\ Ran("frame", 0, 0, i, None, None)
    /\ UNCHANGED <<board, history, session, hint_system, debug_mode, solution, clock>>

NextPresets ==
    \E i \in DOMAIN PresetKind_all, to \in {"None", "Hovered", "Pressed"},
       order \in {"handle_first", "sync_first"} : PresetFrame(i, to, order)

SpecPresets == InitPresets /\ [][NextPresets]_vars

(***************************************************************************)
(* The frames of the Ready state.  Every frame runs each controller system *)
(* once, in an order the schedule does not fix: the command of the frame   *)
(* runs before game_state_system or after it.  probe holds the GameState   *)
(* resource (game_state; was: its value when the frame began), whether the *)
(* board has been borrowed mutably since game_state_system last ran        *)
(* (changed), and the board as it was when game_state_system ran (seen).   *)
(***************************************************************************)
\* game_state_system that never takes the state back from Won.
game_state_system_keeps_won(b, changed, state) ==
    IF changed /\ state # "Won" THEN compute_game_state(b) ELSE state

\* changed: board.is_changed(); state: the GameState resource.
game_state_system(b, changed, state) ==
    IF changed THEN compute_game_state(b) ELSE state

\* The commands a frame may bring: a press of a cell, of Clear Board, Undo,
\* Redo or Hint, or nothing.
FrameCommands ==
    {[op |-> "cycle", row |-> p[1], col |-> p[2]] : p \in {<<8, 8>>, <<0, 2>>}}
    \cup {[op |-> op, row |-> 0, col |-> 0] : op \in {"none", "clear", "undo", "redo", "hint"}}

\* The controller system of command c run on the resources r; touched: the
\* system has borrowed the board mutably.
run_command(c, r) ==
    CASE c.op = "cycle" ->
           LET next == cell_click(r.board, r.history, r.session, r.clock, c.row, c.col)
           IN  [r EXCEPT !.board = next.board, !.history = next.history,
                         !.session = next.session, !.clock = next.clock,
                         !.touched = TRUE]
      [] c.op = "clear" -> [r EXCEPT !.board = clear(r.board), !.touched = TRUE]
      [] c.op = "undo" ->
           LET next == undo_step(r.board, r.history)
           IN  [r EXCEPT !.board = next.board, !.history = next.history,
                         !.touched = is_some(next.ret)]
      [] c.op = "redo" ->
           LET next == redo_step(r.board, r.history)
           IN  [r EXCEPT !.board = next.board, !.history = next.history,
                         !.touched = is_some(next.ret)]
      [] c.op = "hint" ->
           LET used == use_hint(r.hint_system, debug_mode)
               hint == IF used.ret THEN get_next_hint(r.board, solution, 1) ELSE None
           IN  [r EXCEPT !.hint_system = used.hs,
                         !.board = IF is_some(hint)
                                   THEN [r.board EXCEPT
                                           !.cells[hint[1][1]][hint[1][2]] = Some(hint[1][3]),
                                           !.cell_types[hint[1][1]][hint[1][2]] = Some("Player")]
                                   ELSE r.board,
                         !.touched = is_some(hint)]
      [] OTHER -> [r EXCEPT !.touched = FALSE]

\* The first frame of the Ready state: transition_to_game has written the
\* board, GameState is as run_game initialised it.
InitFrames ==
    /\ \E g \in GivensChoices : NewGame(generate_puzzle(g, 0))
    /\ probe = [scenario |-> "frames", game_state |-> "Playing", was |-> "Playing",
                changed |-> TRUE, seen |-> board]

\* One frame: the command before runs, then game_state_system, then the
\* command after.
Frame(before, after) ==
    /\ steps < MaxSteps
    /\ steps' = steps + 1
    /\ LET r0 == [board |-> board, history |-> history, session |-> session,
                  hint_system |-> hint_system, clock |-> clock, touched |-> FALSE]
           r1 == run_command(before, r0)
           r2 == run_command(after, r1)
       IN  /\ board' = r2.board
           /\ history' = r2.history
           /\ session' = r2.session
           /\ hint_system' = r2.hint_system
           /\ clock' = r2.clock
           /\ probe' = [probe EXCEPT
                          !.was = probe.game_state,
                          !.game_state = game_state_system(r1.board,
                                                           probe.changed \/ r1.touched,
                                                           probe.game_state),
                          !.seen = r1.board,
                          !.changed = r2.touched]
    /\ Ran("frame", 0, 0, 0, None, None)
    /\ UNCHANGED <<debug_mode, solution>>

NextFrames ==
    \E before \in FrameCommands, after \in FrameCommands :
        /\ before.op = "none" \/ after.op = "none"
        /\ Frame(before, after)

SpecFrames == InitFrames /\ [][NextFrames]_vars

InitHints ==
    \E puzzle \in Puzzles, max_hints \in {0, 2, 3, 5} :
        /\ board = puzzle.board
        /\ solution = puzzle.solution
        /\ history = GameHistory_new
        /\ session = GameSession_new(0)
        /\ hint_system = HintSystem_new(max_hints)
        /\ debug_mode = enable_unlimited_hints(DebugMode_default)
        /\ clock = 0
        /\ steps = 0
        /\ last = [op |-> "init", row |-> 0, col |-> 0, n |-> 0, arg |-> None,
                   ret |-> None,
                   pre |-> [board |-> puzzle.board, history |-> GameHistory_new,
                            session |-> GameSession_new(0),
                            hint_system |-> HintSystem_new(max_hints),
                            debug_mode |-> enable_unlimited_hints(DebugMode_default)]]
        /\ probe = [scenario |-> "hints_only", given |-> puzzle.board]

NextHints == \E choice \in 1 .. MaxHintPick : HintButton(choice)

SpecHints == InitHints /\ [][NextHints]_vars

\* C33: after any preset-button interactions, once the highlights have been
\* synchronised, every button's interaction is back to None and no change of
\* the selected preset is left for sync_preset_button_highlights to see,
\* exactly the button of the selected preset shows the selected styling and
\* every other preset button the normal styling, in whichever order the two
\* systems ran.
C33_HighlightsFollowSelection ==
    (/\ last.op = "frame"
     /\ probe.synced
     /\ ~probe.changed
     /\ \A i \in DOMAIN PresetKind_all : probe.interaction[i] = "None") =>
        \A i \in DOMAIN PresetKind_all :
            probe.style[i] = IF PresetKind_all[i] = probe.selected_preset
                             THEN "SELECTED" ELSE "NORMAL"


\* C34: in generate_expert_unique_puzzle, before the first and after every
\* iteration of the removal loop, and when the loop has ended, the grid has
\* exactly one completion that satisfies all row, column and box constraints
\* (counted on the grids with at most four empty cells); every filled cell
\* holds the value the filled grid had, so a rejected removal has been put
\* back; the empty cells are the removals kept, and their number never
\* exceeds 81 - target, so the number of filled cells is never below target.
C34_ExpertRemovalKeepsUniqueness ==
    LET share(p, q) == /\ p # q
                       /\ \/ p[1] = q[1]
                          \/ p[2] = q[2]
                          \/ (p[1] \div 3 = q[1] \div 3 /\ p[2] \div 3 = q[2] \div 3)
        holes       == { p \in Idx \X Idx : board.cells[p[1]][p[2]] = <<>> }
        peers       == [h \in holes |-> { q \in Idx \X Idx : share(h, q) }]
        at(f, q)    == IF q \in holes THEN f[q] ELSE board.cells[q[1]][q[2]][1]
        completions == { f \in [holes -> Idx] :
                           \A h \in holes : \A q \in peers[h] : at(f, q) # f[h] }
    IN  (/\ probe.scenario = "generate"
         /\ probe.phase = "expert"
         /\ probe.stage \in {"expert", "attempt", "returned"}) =>
            /\ \A p \in (Idx \X Idx) \ holes :
                  board.cells[p[1]][p[2]] = Some(probe.solution[1].cells[p[1]][p[2]])
            /\ probe.stage = "expert" =>
                  \A p \in Idx \X Idx : board.cell_types[p[1]][p[2]] = None
            /\ Cardinality(holes) = probe.removals_made
            /\ probe.removals_made <= GRID_SIZE * GRID_SIZE - probe.target
            /\ GRID_SIZE * GRID_SIZE - Cardinality(holes) >= probe.target
            /\ Cardinality(holes) <= 4 => Cardinality(completions) = 1

\* In the removal loop a candidate has been emptied and, the grid having two
\* completions without it, filled again, after other removals were kept.
C34_Witness ==
    /\ probe.scenario = "generate"
    /\ probe.stage = "expert"
    /\ probe.removals_made >= 2
    /\ probe.k > probe.removals_made
    /\ probe.removals_made < GRID_SIZE * GRID_SIZE - probe.target


\* C36: the tagging of a generated puzzle is kept by every command.  If,
\* before a cycle, undo, redo, hint or clear-board command, every cell has
\* an origin tag iff it has a value and every filled cell that is not Given
\* is tagged Player (as on every puzzle generated for a givens range below
\* 81), then the same holds after the command.
C36_TagsFollowValues ==
    [][LET tagged(b) ==
             \A r \in Idx, c \in Idx :
                /\ is_some(b.cell_types[r][c]) <=> is_some(b.cells[r][c])
                /\ (is_some(b.cells[r][c]) /\ ~is_given_cell(b, r, c)) =>
                      b.cell_types[r][c] = Some("Player")
       IN  (last'.op \in {"cycle", "undo", "redo", "hint", "clear"} /\ tagged(board)) =>
              tagged(board')]_vars

\* A move has been redone on a board that has Given cells and, after the
\* redo, a cell tagged Player.
C36_Witness ==
    /\ last.op = "redo"
    /\ last.ret # None
    /\ \E r \in Idx, c \in Idx : is_given_cell(board, r, c)
    /\ board.cell_types[last.ret[1].row][last.ret[1].col] = Some("Player")
    /\ \A r \in Idx, c \in Idx :
          is_some(board.cell_types[r][c]) <=> is_some(board.cells[r][c])


\* C37: under every sequence of cycle, undo, redo, hint and clear-board
\* commands, whenever can_undo() holds the cell named by peek_undo() holds
\* that move's new_value, and whenever can_redo() holds the cell named by
\* peek_redo() holds that move's old_value.
C37_HistoryMatchesGrid ==
    /\ can_undo(history) =>
          board.cells[peek_undo(history)[1].row][peek_undo(history)[1].col]
             = peek_undo(history)[1].new_value
    /\ can_redo(history) =>
          board.cells[peek_redo(history)[1].row][peek_redo(history)[1].col]
             = peek_redo(history)[1].old_value


\* C38: within one puzzle, move_count is incremented exactly once by every
\* cycle that returns a Move and is changed by no other cycle and by no
\* undo, redo, hint or clear-board command; the history never holds more
\* moves than min(move_count, max_history).
C38_MoveCountCountsAcceptedCycles ==
    /\ Len(history.moves) <= session.move_count
    /\ Len(history.moves) <= history.max_history
    /\ last.op = "cycle" =>
          session.move_count = last.pre.session.move_count
                                  + (IF last.ret # None THEN 1 ELSE 0)
    /\ last.op \in {"undo", "redo", "hint", "clear"} =>
          session.move_count = last.pre.session.move_count

\* A press has been accepted after an undo: the move that was undone has
\* left the history, which is shorter than the count of accepted presses.
C38_Witness ==
    /\ last.op = "cycle"
    /\ last.ret # None
    /\ Len(history.moves) < session.move_count
    /\ session.move_count = last.pre.session.move_count + 1


\* C39: on a generated puzzle with g Givens, with unlimited hints and no
\* other command, the first 81 - g presses of the Hint button each place a
\* value in an empty cell; from then on the grid equals the Solution cell
\* for cell, compute_game_state is Won, and every further press finds no
\* hint and leaves the grid as it is.  The hint budget is never spent.
C39_HintsAloneSolveThePuzzle ==
    LET empty(b) == Cardinality({p \in Idx \X Idx : is_none(b.cells[p[1]][p[2]])})
        todo     == empty(probe.given)
    IN  /\ empty(board) = IF steps <= todo THEN todo - steps ELSE 0
        /\ last.op = "hint" => (is_some(last.ret) <=> steps <= todo)
        /\ (last.op = "hint" /\ steps > todo) => board = last.pre.board
        /\ steps >= todo =>
              /\ \A r \in Idx, c \in Idx : board.cells[r][c] = Some(solution.cells[r][c])
              /\ compute_game_state(board) = "Won"
        /\ steps < todo => compute_game_state(board) = "Playing"
        /\ hint_system = last.pre.hint_system

\* The puzzle had at least two empty cells; they have been filled by hints
\* and a further press has found no hint.
C39_Witness ==
    /\ last.op = "hint"
    /\ last.ret = None
    /\ Cardinality({p \in Idx \X Idx : is_none(probe.given.cells[p[1]][p[2]])}) >= 2
    /\ compute_game_state(board) = "Won"


\* C40: every puzzle Start Game presents has a number of givens within the
\* givens_range of the selected preset and exactly one solution, also when
\* the fallback generate_puzzle(35) made it.  Of the uniqueness only this
\* much is stated: the grid the fallback leaves is not also completed by the
\* Solution with its rows 4 and 5 exchanged.
C40_PresentedPuzzleFitsPreset ==
    LET givens_range == IF last.n = 5 THEN <<35, 40>> ELSE <<22, 26>>
        filled       == Cardinality({p \in Idx \X Idx : is_some(board.cells[p[1]][p[2]])})
        swap(r)      == IF r = 4 THEN 5 ELSE IF r = 5 THEN 4 ELSE r
        other        == [cells      |-> [r \in Idx |-> [c \in Idx |->
                                           Some(solution.cells[swap(r)][c])]],
                         cell_types |-> [r \in Idx |-> [c \in Idx |-> None]]]
        completes    == /\ is_complete(other)
                        /\ \A r \in Idx, c \in Idx :
                              is_some(board.cells[r][c]) =>
                                  other.cells[r][c] = board.cells[r][c]
                        /\ \E r \in Idx, c \in Idx :
                              other.cells[r][c] # Some(solution.cells[r][c])
    IN  last.op = "start_game" =>
            /\ givens_range[1] <= filled
            /\ filled <= givens_range[2]
            /\ last.ret = Some(FALSE) => ~completes

====
